---- MODULE Spec2Model ----
(***************************************************************************)
(* A model of the client-side logic of the Kubeflow Trainer Python SDK:    *)
(*   - the log multiplexer (utils.wrap_log_stream, utils.get_log_queue_pool*)
(*     and the follow loop of TrainerClient.get_job_logs),                 *)
(*   - the step resolution of a TrainJob from its pod list                 *)
(*     (utils.get_trainjob_node_step, utils.get_trainjob_initializer_step, *)
(*     TrainerClient.__get_trainjob_from_crd),                             *)
(*   - the local job runner (DockerJobRunner) over a container engine,     *)
(*   - the operations of TrainerClient over the cluster API,               *)
(*   - the device resolver (utils.get_container_devices),                  *)
(*   - the trainer resolution (utils.get_runtime_trainer) over             *)
(*     constants.ALL_TRAINERS and constants.DEFAULT_TRAINER.               *)
(* Each component has its own specification over the shared variables.     *)
(***************************************************************************)
EXTENDS Integers, Sequences, FiniteSets, TLC

(***************************************************************************)
(* Bounds of the model.                                                    *)
(***************************************************************************)
MaxSources == 2

MaxLines == 2

\* The lines per source under the fair specification of the multiplexer.
MaxFairLines == 1

\* The lines a long stream yields beyond the size of its queue.
MaxExtraLines == 2

\* The largest num_nodes of a job created while a second caller deletes jobs.
MaxConcurrentNodes == 1

\* The largest job-completion index of a pod.
MaxIndex == 1

\* The number of job names generate_train_job_name can return.
MaxJobs == 2

\* The largest num_nodes of a create_job call.
MaxNodes == 2

\* The largest number of objects in a list the cluster API returns.
MaxItems == 2

\* The largest integer quantity of a resource limit.
MaxQuantity == 2

\* The number of get_runtime_trainer calls of a behaviour.
MaxResolutions == 2

\* The number of get_runtime_trainer calls of a behaviour of the local
\* trainer client.
MaxLocalResolutions == 1

(***************************************************************************)
(* Program constants.                                                      *)
(***************************************************************************)
\* queue.Queue(maxsize=100)
QueueMaxSize == 100

\* for _ in range(50)
BatchSize == 50

(***************************************************************************)
(* Names, strings, quantities and the device resolver.                     *)
(*                                                                         *)
(* Strings that the code formats, parses or tests character by character   *)
(* are sequences of one-character strings; names that are only compared    *)
(* are TLA+ strings.                                                       *)
(***************************************************************************)
\* constants.py
UNKNOWN == "Unknown"

DATASET_INITIALIZER == "dataset-initializer"

MODEL_INITIALIZER == "model-initializer"

NODE == "trainer-node"

TRAINER == "trainer"

MPI_LAUNCHER == "launcher"

TORCH_ENV_NUM_PROC_PER_NODE == "PET_NPROC_PER_NODE"

MPI_ENV_NUM_SLOTS_PER_NODE == "OMPI_MCA_orte_set_default_slots"

GPU_LABEL == "nvidia.com/gpu"

TPU_LABEL == "google.com/tpu"

CPU_LABEL == "cpu"

Digits == <<"0", "1", "2", "3", "4", "5", "6", "7", "8", "9">>

IsDigitChar(c) == \E d \in 1..Len(Digits) : Digits[d] = c

DigitVal(c) == (CHOOSE d \in 1..Len(Digits) : Digits[d] = c) - 1

\* str(n) for an int n >= 0: its decimal digits.
RECURSIVE IntToStr(_)
IntToStr(n) ==
    IF n < Len(Digits)
      THEN <<Digits[n + 1]>>
      ELSE IntToStr(n \div Len(Digits)) \o <<Digits[(n % Len(Digits)) + 1]>>

\* int(s) for a string of decimal digits.
RECURSIVE StrToInt(_)
StrToInt(s) ==
    IF s = <<>>
      THEN 0
      ELSE Len(Digits) * StrToInt(SubSeq(s, 1, Len(s) - 1)) + DigitVal(s[Len(s)])

\* "env.value and env.value.isdigit()": the value is neither None nor empty
\* (both are the empty sequence here) and all its characters are digits.
IsDigit(value) ==
    /\ value # <<>>
    /\ \A k \in 1..Len(value) : IsDigitChar(value[k])

\* The keys of a limits dict: the three device labels and one other key.
ResourceKeys == {GPU_LABEL, TPU_LABEL, CPU_LABEL, "memory"}

\* The value of a key of limits: kind "absent" when the key is not in the
\* dict, else a quantity whose actual_instance is an int, a string or None.
Absent == [kind |-> "absent", int |-> 0, str |-> <<>>]

NoneQuantity == [kind |-> "none", int |-> 0, str |-> <<>>]

IntQuantity(n) == [kind |-> "int", int |-> n, str |-> <<>>]

StrQuantity(str) == [kind |-> "str", int |-> 0, str |-> str]

\* Resources whose limits is None (or resources that are None).
NoResources == [has_limits |-> FALSE, limits |-> [k \in ResourceKeys |-> Absent]]

\* Resources with the given limits.
Limits(limits) == [has_limits |-> TRUE, limits |-> limits]

\* "key in resources.limits"
HasKey(limits, key) == limits[key].kind # "absent"

\* The results of get_container_devices: None, an exception, or a pair.
NoDevices == [raised |-> FALSE, found |-> FALSE, device |-> UNKNOWN, device_count |-> <<>>]

DevicesError == [raised |-> TRUE, found |-> FALSE, device |-> UNKNOWN, device_count |-> <<>>]

\* str(device_count)
QuantityStr(q) ==
    IF q.kind = "int" THEN IntToStr(q.int) ELSE q.str

\* constants.GPU_LABEL.split("/")[1], constants.TPU_LABEL.split("/")[1]
DeviceOf(label) ==
    IF label = GPU_LABEL THEN "gpu"
    ELSE IF label = TPU_LABEL THEN "tpu"
    ELSE CPU_LABEL

\* A resolver that looks for the TPU key first.
get_container_devices_tpu_first(resources) ==
    IF ~resources.has_limits
      THEN NoDevices
      ELSE LET limits == resources.limits
               key == IF HasKey(limits, TPU_LABEL) THEN TPU_LABEL
                      ELSE IF HasKey(limits, GPU_LABEL) THEN GPU_LABEL
                      ELSE IF HasKey(limits, CPU_LABEL) THEN CPU_LABEL
                      ELSE "none"
           IN  IF key = "none" THEN DevicesError
               ELSE IF limits[key].kind = "none" THEN DevicesError
               ELSE [raised |-> FALSE, found |-> TRUE, device |-> DeviceOf(key),
                     device_count |-> QuantityStr(limits[key])]

\* utils.get_container_devices: None when there are no limits; the first of
\* the GPU, TPU and CPU keys present gives the device and its count; limits
\* with none of them, or a count that is None, raise.
get_container_devices(resources) ==
    IF ~resources.has_limits
      THEN NoDevices
      ELSE LET limits == resources.limits
               key == IF HasKey(limits, GPU_LABEL) THEN GPU_LABEL
                      ELSE IF HasKey(limits, TPU_LABEL) THEN TPU_LABEL
                      ELSE IF HasKey(limits, CPU_LABEL) THEN CPU_LABEL
                      ELSE "none"
           IN  IF key = "none" THEN DevicesError
               ELSE IF limits[key].kind = "none" THEN DevicesError
               ELSE [raised |-> FALSE, found |-> TRUE, device |-> DeviceOf(key),
                     device_count |-> QuantityStr(limits[key])]

VARIABLES
    \* ---- log multiplexer ----
    log_streams,     \* per source: the lines the iterator has still to yield
    emitted,         \* per source: the lines next(log_stream) has yielded (history)
    log_queue_pool,  \* per source: the content of its queue.Queue
    worker_pc,       \* per source: "running" or "done" (wrap_log_stream returned)
    finished,        \* the consumer's finished list
    c_pc,            \* position of the consumer loop of get_job_logs
    c_index,         \* index of the enumerate(log_queue_pool) loop (1-based)
    c_batch,         \* iterations done of the range(50) loop
    printed,         \* the lines printed to stdout, in order
    logs_dict,       \* the value accumulated under the key f"{step}-{node_rank}"
    \* ---- step resolution ----
    pod_list,        \* the pods of the TrainJob, in the order the cluster lists them
    job_pc,          \* "idle", or "done" once get_job has been called
    train_job,       \* what get_job gave: its outcome and the steps of the TrainJob
    \* ---- local job runner ----
    docker_networks,    \* the networks of the container engine
    docker_containers,  \* the containers of the container engine
    used_tokens,     \* the tokens generate_train_job_name has returned
    r_pc,            \* "idle" between two calls, else the loop the caller is in
    r_call,          \* the arguments and locals of the call in progress
    r_last,          \* the last call that ended: its arguments and what it gave
    created,         \* history: num_nodes of every job a create_job returned
    deleted,         \* history: the job names a delete_job returned for
    o_pc,            \* a second caller of the runner: "idle", or the loop it is in
    o_call,          \* the arguments and locals of the call of the second caller
    \* ---- job facade ----
    f_last,          \* the last call of the TrainerClient: its inputs, the calls
                     \* it made to the cluster API and what it gave
    \* ---- trainer resolution ----
    ALL_TRAINERS,    \* the Trainer object of every known image (module global)
    DEFAULT_TRAINER, \* the Trainer object of any other image (module global)
    returned,        \* history: per get_runtime_trainer that returned, the
                     \* object it returned and the fields it had then
    t_last,          \* the last get_runtime_trainer: its inputs and what it gave,
                     \* and the number of calls so far
    \* ---- device resolver ----
    d_resources,     \* the resources get_container_devices is called with
    d_devices        \* what the call gave

muxVars == <<log_streams, emitted, log_queue_pool, worker_pc,
             finished, c_pc, c_index, c_batch, printed, logs_dict>>

stepVars == <<pod_list, job_pc, train_job>>

runnerVars == <<docker_networks, docker_containers, used_tokens,
               r_pc, r_call, r_last, created, deleted>>

facadeVars == <<f_last>>

trainerVars == <<ALL_TRAINERS, DEFAULT_TRAINER, returned, t_last>>

deviceVars == <<d_resources, d_devices>>

otherVars == <<o_pc, o_call>>

vars == <<muxVars, stepVars, runnerVars, facadeVars, trainerVars, deviceVars, otherVars>>

\* The variables each component leaves alone.
nonMuxVars == <<stepVars, runnerVars, facadeVars, trainerVars, deviceVars, otherVars>>

nonStepVars == <<muxVars, runnerVars, facadeVars, trainerVars, deviceVars, otherVars>>

nonRunnerVars == <<muxVars, stepVars, facadeVars, trainerVars, deviceVars, otherVars>>

nonFacadeVars == <<muxVars, stepVars, runnerVars, trainerVars, deviceVars, otherVars>>

nonTrainerVars == <<muxVars, stepVars, runnerVars, facadeVars, deviceVars, otherVars>>

nonDeviceVars == <<muxVars, stepVars, runnerVars, facadeVars, trainerVars, otherVars>>

\* The value of each component's variables while another component runs.
MuxIdle ==
    /\ log_streams = <<>>
    /\ emitted = <<>>
    /\ log_queue_pool = <<>>
    /\ worker_pc = <<>>
    /\ finished = <<>>
    /\ c_pc = "idle"
    /\ c_index = 0
    /\ c_batch = 0
    /\ printed = <<>>
    /\ logs_dict = <<>>

StepIdle ==
    /\ pod_list = <<>>
    /\ job_pc = "idle"
    /\ train_job = [outcome |-> "none", steps |-> <<>>]

NoCall ==
    [op |-> "none", outcome |-> "none", framework |-> "none", num_nodes |-> 0,
     runtime_name |-> "none", job_name |-> <<>>, i |-> 0, todo |-> <<>>, jobs |-> <<>>]

RunnerIdle ==
    /\ docker_networks = {}
    /\ docker_containers = {}
    /\ used_tokens = {}
    /\ r_pc = "idle"
    /\ r_call = NoCall
    /\ r_last = NoCall
    /\ created = <<>>
    /\ deleted = {}
    /\ o_pc = "idle"
    /\ o_call = NoCall

\* No call of the TrainerClient has been made.
NoFacadeCall ==
    [op |-> "none", api |-> "none", pods_api |-> <<>>, log_api |-> "none",
     runtimes |-> <<>>, jobs |-> <<>>, name |-> "none", follow |-> FALSE,
     step |-> "none", outcome |-> "none", timed_out |-> FALSE, calls |-> <<>>,
     result |-> <<>>]

FacadeIdle == f_last = NoFacadeCall

\* types.Framework, types.TrainerType
TORCH == "torch"

MLX == "mlx"

CUSTOM_TRAINER == "CustomTrainer"

BUILTIN_TRAINER == "BuiltinTrainer"

\* types.Trainer(trainer_type, framework, entrypoint): accelerator and
\* accelerator_count take their defaults.
Trainer(trainer_type, framework, entrypoint) ==
    [trainer_type |-> trainer_type, framework |-> framework,
     entrypoint |-> entrypoint, accelerator |-> UNKNOWN,
     accelerator_count |-> StrQuantity(<<UNKNOWN>>)]

\* The images of constants.ALL_TRAINERS.
TrainerImages ==
    {"pytorch/pytorch", "ghcr.io/kubeflow/trainer/mlx-runtime",
     "ghcr.io/kubeflow/trainer/deepspeed-runtime",
     "ghcr.io/kubeflow/trainer/torchtune-trainer"}

\* constants.ALL_TRAINERS as the module is loaded.
InitialTrainers ==
    [image \in TrainerImages |->
       CASE image = "pytorch/pytorch" ->
              Trainer(CUSTOM_TRAINER, TORCH, "torchrun")
         [] image = "ghcr.io/kubeflow/trainer/mlx-runtime" ->
              Trainer(CUSTOM_TRAINER, MLX,
                      "mpirun --hostfile /etc/mpi/hostfile -x LD_LIBRARY_PATH=/usr/local/lib/ python3")
         [] image = "ghcr.io/kubeflow/trainer/deepspeed-runtime" ->
              Trainer(CUSTOM_TRAINER, "deepspeed",
                      "mpirun --hostfile /etc/mpi/hostfile python3")
         [] image = "ghcr.io/kubeflow/trainer/torchtune-trainer" ->
              Trainer(BUILTIN_TRAINER, "torchtune", "tune run")]

\* constants.DEFAULT_TRAINER as the module is loaded.
InitialDefaultTrainer == Trainer(CUSTOM_TRAINER, TORCH, "torchrun")

\* An ML policy: torch is torch.num_proc_per_node (Absent when there is no
\* Torch policy), mpi is mpi.num_proc_per_node and num_nodes the node count
\* (0 for None).
MLPolicy(torch, mpi, num_nodes) == [torch |-> torch, mpi |-> mpi, num_nodes |-> num_nodes]

\* No get_runtime_trainer has been called.
NoResolution ==
    [calls |-> 0, replicated_jobs |-> <<>>, ml_policy |-> MLPolicy(Absent, 0, 0),
     label |-> "none", raised |-> FALSE, ref |-> "none", devices |-> NoDevices,
     before |-> Trainer("none", "none", "none")]

TrainerIdle ==
    /\ ALL_TRAINERS = InitialTrainers
    /\ DEFAULT_TRAINER = InitialDefaultTrainer
    /\ returned = <<>>
    /\ t_last = NoResolution

\* get_container_devices has not been called.
NotCalled == [raised |-> FALSE, found |-> FALSE, device |-> "none", device_count |-> <<>>]

DeviceIdle ==
    /\ d_resources = NoResources
    /\ d_devices = NotCalled

-----------------------------------------------------------------------------
(***************************************************************************)
(* Log multiplexer.                                                        *)
(*                                                                         *)
(* A wrap_log_stream thread takes one step per iteration of its loop: the  *)
(* stream is private to the thread, so next(log_stream) and the q.put that *)
(* follows it are one step, enabled when the put can proceed.  The consumer*)
(* takes one step per log_queue.get; the control flow between two gets     *)
(* reads only the consumer's own finished list and is part of the step.    *)
(***************************************************************************)

\* The sentinel wrap_log_stream puts when its stream is exhausted (Python None).
None == [src |-> 0, seq |-> 0]

\* The k-th line of source i.
Line(i, k) == [src |-> i, seq |-> k]

\* A log stream of source i that yields len lines and then raises StopIteration.
Stream(i, len) == [k \in 1..len |-> Line(i, k)]

Sources == DOMAIN log_streams

\* A put that inserts at the head of the queue (a LIFO queue).
QueuePutFront(q, x) == <<x>> \o q

\* queue.Queue.put: append at the tail (the caller has checked there is room).
QueuePut(q, x) == Append(q, x)

\* queue.Queue.get: the record at the head.
QueueGet(q) == Head(q)

\* all(finished)
AllFinished == \A i \in Sources : finished[i]

\* get_log_queue_pool has started one thread per stream, each stream having
\* at most maxLines lines to yield; the consumer is about to enter its loop.
MuxInitOf(maxLines) ==
    /\ \E n \in 0..MaxSources :
         \E lens \in [1..n -> 0..maxLines] :
            log_streams = [i \in 1..n |-> Stream(i, lens[i])]
    /\ emitted = [i \in Sources |-> <<>>]
    /\ log_queue_pool = [i \in Sources |-> <<>>]
    /\ worker_pc = [i \in Sources |-> "running"]
    /\ finished = [i \in Sources |-> FALSE]
    /\ c_pc = "start"
    /\ c_index = 0
    /\ c_batch = 0
    /\ printed = <<>>
    /\ logs_dict = <<>>

MuxInit ==
    MuxInitOf(MaxLines) /\ StepIdle /\ RunnerIdle /\ FacadeIdle /\ TrainerIdle /\ DeviceIdle

MuxFairInit ==
    /\ MuxInitOf(MaxFairLines)
    /\ StepIdle /\ RunnerIdle /\ FacadeIdle /\ TrainerIdle /\ DeviceIdle

consumerVars == <<finished, c_pc, c_index, c_batch, printed, logs_dict>>

workerVars == <<log_streams, emitted, worker_pc>>

\* An iteration that puts without waiting for room in the queue.
WorkerPutNoWait(i) ==
    /\ worker_pc[i] = "running"
    /\ log_streams[i] # <<>>
    /\ emitted' = [emitted EXCEPT ![i] = Append(@, Head(log_streams[i]))]
    /\ log_queue_pool' = [log_queue_pool EXCEPT ![i] = QueuePut(@, Head(log_streams[i]))]
    /\ log_streams' = [log_streams EXCEPT ![i] = Tail(@)]
    /\ UNCHANGED <<worker_pc, consumerVars>>
    /\ UNCHANGED nonMuxVars

\* wrap_log_stream, an iteration that yields a line:
\* logline = next(log_stream); q.put(logline), the put blocking while the
\* queue is full.
WorkerPut(i) ==
    /\ worker_pc[i] = "running"
    /\ log_streams[i] # <<>>
    /\ Len(log_queue_pool[i]) < QueueMaxSize
    /\ emitted' = [emitted EXCEPT ![i] = Append(@, Head(log_streams[i]))]
    /\ log_queue_pool' = [log_queue_pool EXCEPT ![i] = QueuePut(@, Head(log_streams[i]))]
    /\ log_streams' = [log_streams EXCEPT ![i] = Tail(@)]
    /\ UNCHANGED <<worker_pc, consumerVars>>
    /\ UNCHANGED nonMuxVars

\* A wrap_log_stream that returns on StopIteration without putting None.
WorkerStopIterationNoSentinel(i) ==
    /\ worker_pc[i] = "running"
    /\ log_streams[i] = <<>>
    /\ worker_pc' = [worker_pc EXCEPT ![i] = "done"]
    /\ UNCHANGED <<log_streams, emitted, log_queue_pool, consumerVars>>
    /\ UNCHANGED nonMuxVars

\* wrap_log_stream, the last iteration: next(log_stream) raises StopIteration;
\* q.put(None); return.
WorkerStopIteration(i) ==
    /\ worker_pc[i] = "running"
    /\ log_streams[i] = <<>>
    /\ Len(log_queue_pool[i]) < QueueMaxSize
    /\ log_queue_pool' = [log_queue_pool EXCEPT ![i] = QueuePut(@, None)]
    /\ worker_pc' = [worker_pc EXCEPT ![i] = "done"]
    /\ UNCHANGED <<log_streams, emitted, consumerVars>>
    /\ UNCHANGED nonMuxVars

\* A worker that puts the sentinel when the read raises an error.
WorkerRaisesPutsSentinel(i) ==
    /\ worker_pc[i] = "running"
    /\ log_queue_pool' = [log_queue_pool EXCEPT ![i] = QueuePut(@, None)]
    /\ worker_pc' = [worker_pc EXCEPT ![i] = "failed"]
    /\ UNCHANGED <<log_streams, emitted, consumerVars>>
    /\ UNCHANGED nonMuxVars

\* wrap_log_stream when next(log_stream) raises an error that is not
\* StopIteration: the error is not caught, the thread ends, nothing is put.
WorkerRaises(i) ==
    /\ worker_pc[i] = "running"
    /\ worker_pc' = [worker_pc EXCEPT ![i] = "failed"]
    /\ UNCHANGED <<log_streams, emitted, log_queue_pool, consumerVars>>
    /\ UNCHANGED nonMuxVars

SetMin(S) == CHOOSE x \in S : \A y \in S : x <= y

\* The index the consumer polls next when the enumerate loop is continued at
\* index idx with the finished list fin, or 0 when the loop returns:
\*   "if all(finished): break" and, after the for loop, "if all(finished):
\*   return logs_dict"; "if finished[index]: continue" skips finished sources;
\*   when the for loop is exhausted the while loop starts it again at the
\*   first index.
NextPoll(idx, fin) ==
    LET unfinished == {i \in Sources : ~fin[i]}
    IN  IF unfinished = {} THEN 0
        ELSE IF \E i \in unfinished : i >= idx
               THEN SetMin({i \in unfinished : i >= idx})
               ELSE SetMin(unfinished)

\* The consumer leaves the range(50) loop of c_index with the finished list fin.
LeaveBatch(fin) ==
    /\ c_index' = NextPoll(c_index + 1, fin)
    /\ c_pc' = IF NextPoll(c_index + 1, fin) = 0 THEN "returned" ELSE "get"
    /\ c_batch' = 0

\* get_job_logs enters "while True" after finished = [False] * len(log_streams)
\* and get_log_queue_pool(log_streams).
ConsumerStart ==
    /\ c_pc = "start"
    /\ c_index' = NextPoll(1, finished)
    /\ c_pc' = IF NextPoll(1, finished) = 0 THEN "returned" ELSE "get"
    /\ UNCHANGED <<workerVars, log_queue_pool, finished, c_batch, printed, logs_dict>>
    /\ UNCHANGED nonMuxVars

\* An update that overwrites the key: logs_dict[key] = logline + "\n"
AppendLogOverwrite(d, logline) == <<logline>>

\* logs_dict[key] = logs_dict.get(key, "") + logline + "\n"
AppendLog(d, logline) == Append(d, logline)

\* A get that never ends the batch of a source.
ConsumerGetLineNoBatch ==
    /\ c_pc = "get"
    /\ log_queue_pool[c_index] # <<>>
    /\ QueueGet(log_queue_pool[c_index]) # None
    /\ printed' = Append(printed, QueueGet(log_queue_pool[c_index]))
    /\ logs_dict' = AppendLog(logs_dict, QueueGet(log_queue_pool[c_index]))
    /\ log_queue_pool' = [log_queue_pool EXCEPT ![c_index] = Tail(@)]
    /\ c_batch' = c_batch + 1
    /\ UNCHANGED <<c_pc, c_index>>
    /\ UNCHANGED <<workerVars, finished>>
    /\ UNCHANGED nonMuxVars

\* log_queue.get(timeout=1) returns a line: print it and add it to logs_dict;
\* the range(50) loop ends after its 50th iteration.
ConsumerGetLine ==
    /\ c_pc = "get"
    /\ log_queue_pool[c_index] # <<>>
    /\ QueueGet(log_queue_pool[c_index]) # None
    /\ printed' = Append(printed, QueueGet(log_queue_pool[c_index]))
    /\ logs_dict' = AppendLog(logs_dict, QueueGet(log_queue_pool[c_index]))
    /\ log_queue_pool' = [log_queue_pool EXCEPT ![c_index] = Tail(@)]
    /\ IF c_batch + 1 = BatchSize
         THEN LeaveBatch(finished)
         ELSE c_batch' = c_batch + 1 /\ UNCHANGED <<c_pc, c_index>>
    /\ UNCHANGED <<workerVars, finished>>
    /\ UNCHANGED nonMuxVars

\* log_queue.get(timeout=1) returns None: finished[index] = True; break.
ConsumerGetNone ==
    /\ c_pc = "get"
    /\ log_queue_pool[c_index] # <<>>
    /\ QueueGet(log_queue_pool[c_index]) = None
    /\ log_queue_pool' = [log_queue_pool EXCEPT ![c_index] = Tail(@)]
    /\ finished' = [finished EXCEPT ![c_index] = TRUE]
    /\ LeaveBatch([finished EXCEPT ![c_index] = TRUE])
    /\ UNCHANGED <<workerVars, printed, logs_dict>>
    /\ UNCHANGED nonMuxVars

\* A consumer that takes an empty queue for the end of the source.
ConsumerEmptyFinishes ==
    /\ c_pc = "get"
    /\ log_queue_pool[c_index] = <<>>
    /\ finished' = [finished EXCEPT ![c_index] = TRUE]
    /\ LeaveBatch([finished EXCEPT ![c_index] = TRUE])
    /\ UNCHANGED <<workerVars, log_queue_pool, printed, logs_dict>>
    /\ UNCHANGED nonMuxVars

\* A get without timeout: the consumer waits at the empty queue.
ConsumerEmptyWaits ==
    /\ c_pc = "get"
    /\ log_queue_pool[c_index] = <<>>
    /\ UNCHANGED <<workerVars, log_queue_pool, consumerVars>>
    /\ UNCHANGED nonMuxVars

\* log_queue.get(timeout=1) raises queue.Empty: break.
ConsumerEmpty ==
    /\ c_pc = "get"
    /\ log_queue_pool[c_index] = <<>>
    /\ LeaveBatch(finished)
    /\ UNCHANGED <<workerVars, log_queue_pool, finished, printed, logs_dict>>
    /\ UNCHANGED nonMuxVars

Worker(i) ==
    \/ WorkerPut(i)
    \/ WorkerStopIteration(i)

Consumer ==
    \/ ConsumerStart
    \/ ConsumerGetLine
    \/ ConsumerGetNone
    \/ ConsumerEmpty

MuxNext ==
    \/ \E i \in Sources : WorkerPut(i)
    \/ \E i \in Sources : WorkerStopIteration(i)
    \/ ConsumerStart
    \/ ConsumerGetLine
    \/ ConsumerGetNone
    \/ ConsumerEmpty

MuxSpec == MuxInit /\ [][MuxNext]_vars

\* Threads are scheduled fairly: every wrap_log_stream thread and the consumer
\* loop keep running while they can take a step.
MuxFairSpec ==
    /\ MuxFairInit
    /\ [][MuxNext]_vars
    /\ \A i \in 1..MaxSources : WF_vars(i \in Sources /\ Worker(i))
    /\ WF_vars(Consumer)

\* The consumer loop keeps running while it can take a step; a source may
\* stay silent for ever: its worker waits in next(log_stream) and takes no
\* step.
MuxStallSpec ==
    /\ MuxFairInit
    /\ [][MuxNext]_vars
    /\ WF_vars(Consumer)

\* The multiplexer over streams whose read may raise an error.
MuxErrorNext ==
    \/ MuxNext
    \/ \E i \in Sources : WorkerRaises(i)

MuxErrorSpec == MuxFairInit /\ [][MuxErrorNext]_vars

\* One stream that yields more lines than its queue holds.
MuxLongInit ==
    /\ \E extra \in 1..MaxExtraLines :
          log_streams = <<Stream(1, QueueMaxSize + extra)>>
    /\ emitted = [i \in Sources |-> <<>>]
    /\ log_queue_pool = [i \in Sources |-> <<>>]
    /\ worker_pc = [i \in Sources |-> "running"]
    /\ finished = [i \in Sources |-> FALSE]
    /\ c_pc = "start"
    /\ c_index = 0
    /\ c_batch = 0
    /\ printed = <<>>
    /\ logs_dict = <<>>
    /\ StepIdle /\ RunnerIdle /\ FacadeIdle /\ TrainerIdle /\ DeviceIdle

MuxLongSpec == MuxLongInit /\ [][MuxNext]_vars

\* Two streams: the first yields more lines than a batch holds, the second
\* yields none.
MuxBatchInit ==
    /\ log_streams = <<Stream(1, BatchSize + MaxExtraLines), Stream(2, 0)>>
    /\ emitted = [i \in Sources |-> <<>>]
    /\ log_queue_pool = [i \in Sources |-> <<>>]
    /\ worker_pc = [i \in Sources |-> "running"]
    /\ finished = [i \in Sources |-> FALSE]
    /\ c_pc = "start"
    /\ c_index = 0
    /\ c_batch = 0
    /\ printed = <<>>
    /\ logs_dict = <<>>
    /\ StepIdle /\ RunnerIdle /\ FacadeIdle /\ TrainerIdle /\ DeviceIdle

MuxBatchSpec == MuxBatchInit /\ [][MuxNext]_vars

-----------------------------------------------------------------------------
(***************************************************************************)
(* Properties of the log multiplexer.                                      *)
(***************************************************************************)

\* The lines of source i in s, in the order of s.
FromSource(s, i) == SelectSeq(s, LAMBDA x : x.src = i)

\* The number of occurrences of x in s.
Count(s, x) == Cardinality({p \in 1..Len(s) : s[p] = x})

IsPrefix(s, t) == Len(s) <= Len(t) /\ \A p \in 1..Len(s) : s[p] = t[p]

\* Every element of s is a line some source emitted.
OnlyEmitted(s) ==
    \A p \in 1..Len(s) :
        s[p].src \in Sources /\ \E k \in 1..Len(emitted[s[p].src]) : emitted[s[p].src][k] = s[p]

\* C1: when the consumer returns, every source is exhausted and every line any
\* source emitted has been printed exactly once and is held exactly once in the
\* aggregated result; nothing else is in either.
C1_NoLineLostOrDuplicated ==
    c_pc = "returned" =>
        /\ \A i \in Sources : log_streams[i] = <<>>
        /\ \A i \in Sources : \A k \in 1..Len(emitted[i]) :
              /\ Count(printed, emitted[i][k]) = 1
              /\ Count(logs_dict, emitted[i][k]) = 1
        /\ OnlyEmitted(printed)
        /\ OnlyEmitted(logs_dict)

\* Two sources of two lines each were drained, the first line received being
\* one of the second source.
C1_Witness ==
    /\ c_pc = "returned"
    /\ Cardinality(Sources) >= 2
    /\ \A i \in Sources : Len(emitted[i]) >= 2
    /\ Len(logs_dict) >= 4
    /\ logs_dict[1].src = 2

\* C2: in every state, the lines received from one source (printed, and held in
\* the aggregated result) are an initial part of what that source emitted, in
\* the order of emission.
C2_PerSourceOrder ==
    \A i \in Sources :
        /\ IsPrefix(FromSource(printed, i), emitted[i])
        /\ IsPrefix(FromSource(logs_dict, i), emitted[i])

\* Lines of two sources were received interleaved: a line of another source
\* lies between two lines of one source.
C2_Witness ==
    \E p, q, r \in 1..Len(printed) :
        /\ p < q /\ q < r
        /\ printed[p].src = printed[r].src
        /\ printed[q].src # printed[p].src
        /\ logs_dict = printed

\* C3: under fair scheduling every source is eventually marked finished and
\* the consumer eventually returns.
C3_EventuallyReturns == <>(AllFinished /\ c_pc = "returned")

\* The consumer returned after the second source had ended before the first one
\* delivered its last line.
C3_Witness ==
    /\ c_pc = "returned"
    /\ Cardinality(Sources) >= 2
    /\ AllFinished
    /\ Len(printed) >= 2
    /\ printed[Len(printed)].src = 1
    /\ printed[1].src = 2
    /\ \A i \in Sources : emitted[i] # <<>>

\* C4: a source is marked finished only once its worker has ended and its
\* sentinel has been taken from its queue, and the consumer has returned only
\* if every source is marked finished; so it has not returned while a source
\* has not ended.
C4_ReturnsOnlyWhenAllFinished ==
    /\ \A i \in Sources :
          finished[i] => /\ worker_pc[i] = "done"
                         /\ log_streams[i] = <<>>
                         /\ log_queue_pool[i] = <<>>
    /\ c_pc = "returned" => AllFinished
    /\ (\E i \in Sources : worker_pc[i] # "done") => c_pc # "returned"

\* One source is finished, another has not ended and has nothing queued, and
\* the consumer is polling the queue of the latter.
C4_Witness ==
    \E i, j \in Sources :
        /\ finished[i]
        /\ worker_pc[j] # "done"
        /\ log_queue_pool[j] = <<>>
        /\ c_pc = "get"
        /\ c_index = j

\* The lines in a queue, the sentinel left out.
QueuedLines(q) == SelectSeq(q, LAMBDA x : x # None)

LastFrom(n, i) ==
    /\ Len(printed) >= n
    /\ \A p \in (Len(printed) - n + 1)..Len(printed) : printed[p].src = i

\* The unfinished source that follows idx in index order, the first
\* unfinished one after the last index.
FollowingSource(idx, fin) ==
    IF \E i \in Sources : ~fin[i] /\ i > idx
      THEN CHOOSE i \in Sources :
             ~fin[i] /\ i > idx /\ \A j \in Sources : (~fin[j] /\ j > idx) => i <= j
      ELSE CHOOSE i \in Sources : ~fin[i] /\ \A j \in Sources : ~fin[j] => i <= j

\* A record that is received is the head of the queue that is polled, and
\* it continues the visit or is the 50th of it.
TakesFromPolledQueue ==
    printed' # printed =>
       /\ c_pc = "get"
       /\ log_queue_pool[c_index] # <<>>
       /\ printed' = Append(printed, Head(log_queue_pool[c_index]))
       /\ Head(log_queue_pool[c_index]).src = c_index
       /\ \/ c_batch' = c_batch + 1 /\ c_index' = c_index
          \/ c_batch = BatchSize - 1 /\ c_batch' = 0

\* The consumer leaves a queue when the queue is empty, gave the sentinel or
\* gave the 50th record, for the unfinished source that follows.
LeavesInOrder ==
    (c_pc = "get" /\ c_pc' = "get" /\ c_index' # c_index) =>
       /\ \/ log_queue_pool[c_index] = <<>>
          \/ Head(log_queue_pool[c_index]) = None
          \/ c_batch = BatchSize - 1 /\ printed' # printed
       /\ c_batch' = 0
       /\ c_index' = FollowingSource(c_index, finished')

\* C24 as it is stated: while another source is unfinished, no source has
\* delivered more than 50 consecutive records.
C24_AtMostFiftyConsecutive ==
    \A i \in Sources :
        (\E j \in Sources \ {i} : ~finished[j]) => ~LastFrom(BatchSize + 1, i)

\* C24: the consumer takes at most 50 records of one queue in one visit:
\* the records of the visit are the last ones received, a record is taken
\* from the head of the queue that is polled; the consumer leaves a queue
\* only when the queue is empty, when it gave the sentinel or when it gave
\* the 50th record of the visit, and goes on with the unfinished source that
\* follows in index order.  So a source delivers more than 50 consecutive
\* records only when the polls of the other unfinished sources in between
\* found their queues empty.
C24_BatchPerVisit ==
    /\ [](/\ c_batch \in 0..(BatchSize - 1)
          /\ c_pc = "get" => LastFrom(c_batch, c_index))
    /\ [][TakesFromPolledQueue /\ LeavesInOrder]_vars

\* The first source has delivered 51 consecutive records while the second
\* is unfinished: the consumer found the queue of the second empty after
\* the 50th record and is in its second visit of the first.
C24_Witness ==
    /\ c_pc = "get"
    /\ c_index = 1
    /\ c_batch = 1
    /\ ~finished[2]
    /\ Len(printed) = BatchSize + 1
    /\ LastFrom(BatchSize + 1, 1)

\* The k-th line of source i is in the queue of the source.
Queued(i, k) ==
    /\ i \in Sources
    /\ \E p \in 1..Len(log_queue_pool[i]) : log_queue_pool[i][p] = Line(i, k)

\* The k-th line of source i has been received.
Received(i, k) == \E p \in 1..Len(printed) : printed[p] = Line(i, k)

\* C25: a line that is in the queue of its source is eventually received,
\* whatever the other sources do: a source that stays silent without ending
\* makes the consumer go on to the next source each time its queue is found
\* empty.
C25_QueuedLineEventuallyReceived ==
    \A i \in 1..MaxSources, k \in 1..MaxFairLines : Queued(i, k) ~> Received(i, k)

\* The line of the second source has been received although the first
\* source, which comes first in every round, has produced nothing and has
\* not ended.
C25_Witness ==
    /\ {1, 2} \subseteq Sources
    /\ worker_pc[1] = "running"
    /\ log_streams[1] # <<>>
    /\ emitted[1] = <<>>
    /\ log_queue_pool[1] = <<>>
    /\ Received(2, 1)

\* The sentinel is in the queue of source i.
SentinelQueued(i) == \E p \in 1..Len(log_queue_pool[i]) : log_queue_pool[i][p] = None

\* C26: the sentinel of a source is put only by a worker that ended on the
\* exhaustion of its stream; a worker that ended on another error stays
\* ended, has put no sentinel, its source is not marked finished and the
\* consumer has not returned, in that state and in every later one.
C26_ErrorLeavesConsumerLooping ==
    /\ [](\A i \in Sources :
            /\ (SentinelQueued(i) \/ finished[i]) =>
                  worker_pc[i] = "done" /\ log_streams[i] = <<>>
            /\ worker_pc[i] = "failed" =>
                  ~SentinelQueued(i) /\ ~finished[i] /\ c_pc # "returned")
    /\ [][\A i \in Sources : worker_pc[i] = "failed" => worker_pc'[i] = "failed"]_vars

\* The worker of the first source ended on an error after its line was
\* received; the second source is finished, every queue is empty and every
\* worker has ended, and the consumer polls the queue of the first source.
C26_Witness ==
    /\ Sources = {1, 2}
    /\ worker_pc[1] = "failed"
    /\ Received(1, 1)
    /\ finished[2]
    /\ \A i \in Sources : log_queue_pool[i] = <<>>
    /\ c_pc = "get"
    /\ c_index = 1

-----------------------------------------------------------------------------
(***************************************************************************)
(* Step resolution: the Steps of a TrainJob from its pod list.             *)
(***************************************************************************)

\* next(c for c in containers if c.name in names): the position of the first
\* such container, 0 when there is none (StopIteration).
FirstContainer(containers, names) ==
    IF \E k \in 1..Len(containers) : containers[k].name \in names
      THEN SetMin({k \in 1..Len(containers) : containers[k].name \in names})
      ELSE 0

\* types.Step(name=..., status=pod_status.phase if pod_status else None,
\* pod_name=...), then "step.device, step.device_count = devices" when the
\* container has devices.  Step.device and Step.device_count default to
\* "Unknown".
NewStep(name, pod_status, pod_name, devices) ==
    [name |-> name, status |-> pod_status, pod_name |-> pod_name,
     device |-> IF devices.found THEN devices.device ELSE UNKNOWN,
     device_count |-> IF devices.found THEN devices.device_count ELSE <<UNKNOWN>>]

StepError == [raised |-> TRUE, step |-> <<>>]

StepOk(step) == [raised |-> FALSE, step |-> step]

\* utils.get_trainjob_initializer_step
get_trainjob_initializer_step(pod_name, pod_spec, pod_status) ==
    LET k == FirstContainer(pod_spec.containers, {DATASET_INITIALIZER, MODEL_INITIALIZER})
    IN  IF k = 0 THEN StepError
        ELSE LET container == pod_spec.containers[k]
                 devices == get_container_devices(container.resources)
             IN  IF devices.raised THEN StepError
                 ELSE StepOk(NewStep(<<container.name>>, pod_status, pod_name, devices))

\* f"{constants.NODE}-{job_index}"
NodeStepName(job_index) == <<NODE, "-">> \o IntToStr(job_index)

\* A name that is shifted for the launcher too.
MpiStepNameShiftAll(replicated_job_name, job_index, name) ==
    NodeStepName(job_index + 1)

\* A name that is never shifted.
MpiStepNameNoShift(replicated_job_name, job_index, name) ==
    name

\* The step name after an MPI slots variable with a digit value was read:
\*   if replicated_job_name != constants.MPI_LAUNCHER:
\*       step.name = f"{constants.NODE}-{job_index+1}"
MpiStepName(replicated_job_name, job_index, name) ==
    IF replicated_job_name # MPI_LAUNCHER
      THEN NodeStepName(job_index + 1)
      ELSE name

\* A loop that takes the value of the variables whatever it is.
RECURSIVE ApplyEnvAnyValue(_, _, _, _)
ApplyEnvAnyValue(env, step, replicated_job_name, job_index) ==
    IF env = <<>>
      THEN step
      ELSE LET e == Head(env)
               next ==
                 IF e.name = TORCH_ENV_NUM_PROC_PER_NODE
                   THEN [step EXCEPT !.device_count = e.value]
                 ELSE IF e.name = MPI_ENV_NUM_SLOTS_PER_NODE
                   THEN [step EXCEPT
                           !.device_count = e.value,
                           !.name = IF IsDigit(e.value)
                                      THEN MpiStepName(replicated_job_name, job_index, @)
                                      ELSE @]
                 ELSE step
           IN  ApplyEnvAnyValue(Tail(env), next, replicated_job_name, job_index)

\* The loop "for env in container.env" of get_trainjob_node_step, run on the
\* step: a digit value of the torch variable sets the device count, a digit
\* value of the MPI variable sets the device count and the name.
RECURSIVE ApplyEnv(_, _, _, _)
ApplyEnv(env, step, replicated_job_name, job_index) ==
    IF env = <<>>
      THEN step
      ELSE LET e == Head(env)
               next ==
                 IF IsDigit(e.value)
                   THEN IF e.name = TORCH_ENV_NUM_PROC_PER_NODE
                          THEN [step EXCEPT !.device_count = e.value]
                        ELSE IF e.name = MPI_ENV_NUM_SLOTS_PER_NODE
                          THEN [step EXCEPT
                                  !.device_count = e.value,
                                  !.name = MpiStepName(replicated_job_name, job_index, @)]
                        ELSE step
                   ELSE step
           IN  ApplyEnv(Tail(env), next, replicated_job_name, job_index)

\* utils.get_trainjob_node_step
get_trainjob_node_step(replicated_job_name, job_index, pod_name, pod_spec, pod_status) ==
    LET k == FirstContainer(pod_spec.containers, {MPI_LAUNCHER, TRAINER})
    IN  IF k = 0 THEN StepError
        ELSE LET container == pod_spec.containers[k]
                 devices == get_container_devices(container.resources)
             IN  IF devices.raised THEN StepError
                 ELSE StepOk(ApplyEnv(container.env,
                                      NewStep(NodeStepName(job_index), pod_status,
                                              pod_name, devices),
                                      replicated_job_name, job_index))

\* The body of "for pod in pod_list.items" of __get_trainjob_from_crd: the
\* step of one pod, by the replicated-job label of the pod.
PodStep(pod) ==
    IF pod.rjob \in {DATASET_INITIALIZER, MODEL_INITIALIZER}
      THEN get_trainjob_initializer_step(pod.name, pod.spec, pod.status)
      ELSE get_trainjob_node_step(pod.rjob, StrToInt(pod.job_index), pod.name,
                                  pod.spec, pod.status)

\* The loop over the pods: the steps in the order of the pods, or an error as
\* soon as one pod raises.
RECURSIVE ResolveSteps(_)
ResolveSteps(pods) ==
    IF pods = <<>>
      THEN [raised |-> FALSE, steps |-> <<>>]
      ELSE LET first == PodStep(Head(pods))
               rest == ResolveSteps(Tail(pods))
           IN  IF first.raised \/ rest.raised
                 THEN [raised |-> TRUE, steps |-> <<>>]
                 ELSE [raised |-> FALSE, steps |-> <<first.step>> \o rest.steps]

(***************************************************************************)
(* The pods a cluster holds for one TrainJob.                              *)
(***************************************************************************)

Env(name, value) == [name |-> name, value |-> value]

\* The environments of a trainer or launcher container: none, the MPI slots
\* variable with a digit value, with a value that is no number, and the torch
\* variable followed by the MPI variable.
EnvOptions ==
    { <<>>,
      <<Env(MPI_ENV_NUM_SLOTS_PER_NODE, <<"4">>)>>,
      <<Env(MPI_ENV_NUM_SLOTS_PER_NODE, <<"a">>)>>,
      <<Env(TORCH_ENV_NUM_PROC_PER_NODE, <<"2">>), Env(MPI_ENV_NUM_SLOTS_PER_NODE, <<"4">>)>> }

GpuLimits == Limits([k \in ResourceKeys |-> IF k = GPU_LABEL THEN IntQuantity(1) ELSE Absent])

Container(name, env, resources) == [name |-> name, env |-> env, resources |-> resources]

Pod(rjob, index, containers, status) ==
    [name |-> <<rjob, index>>, rjob |-> rjob, job_index |-> IntToStr(index),
     spec |-> [containers |-> containers], status |-> status]

\* The pods of the initializer groups: one container named after the group.
InitializerPods ==
    { Pod(g, 0, <<Container(g, <<>>, r)>>, "Running") :
        g \in {DATASET_INITIALIZER, MODEL_INITIALIZER}, r \in {NoResources, GpuLimits} }

\* The pods of the launcher group.
LauncherPods ==
    { Pod(MPI_LAUNCHER, i, <<Container(MPI_LAUNCHER, env, NoResources)>>, "Running") :
        i \in 0..MaxIndex, env \in EnvOptions }

\* The environments of a trainer container that has resource limits: none,
\* the torch variable with a digit value and with a value that is no number.
LimitsEnvOptions ==
    { <<>>,
      <<Env(TORCH_ENV_NUM_PROC_PER_NODE, <<"2">>)>>,
      <<Env(TORCH_ENV_NUM_PROC_PER_NODE, <<"a", "u", "t", "o">>)>> }

\* The pods of the node group; a pod may hold no container of a known name.
NodePods ==
    { Pod(NODE, i, <<Container(TRAINER, env, NoResources)>>, "Running") :
        i \in 0..MaxIndex, env \in EnvOptions }
    \cup { Pod(NODE, i, <<Container(TRAINER, env, GpuLimits)>>, "Running") :
        i \in 0..MaxIndex, env \in LimitsEnvOptions }
    \cup { Pod(NODE, i, <<Container("sidecar", <<>>, NoResources)>>, "Pending") :
        i \in 0..MaxIndex }

\* Pods are listed in the order of their names: by group, then by index.  A
\* group holds one pod per job-completion index, the launcher group one pod.
GroupRank(g) ==
    IF g = DATASET_INITIALIZER THEN 0
    ELSE IF g = MPI_LAUNCHER THEN 1
    ELSE IF g = MODEL_INITIALIZER THEN 2
    ELSE 3

SlotKey(pod) ==
    GroupRank(pod.rjob) * (MaxIndex + 2)
        + (IF pod.rjob = NODE THEN StrToInt(pod.job_index) ELSE 0)

StepInit ==
    /\ StepIdle
    /\ MuxIdle
    /\ RunnerIdle
    /\ FacadeIdle
    /\ TrainerIdle
    /\ DeviceIdle

\* The cluster creates the next pod of the job.
PodCreated(pod) ==
    /\ job_pc = "idle"
    /\ IF pod_list = <<>> THEN TRUE
                          ELSE SlotKey(pod_list[Len(pod_list)]) < SlotKey(pod)
    /\ pod_list' = Append(pod_list, pod)
    /\ UNCHANGED <<job_pc, train_job>>
    /\ UNCHANGED nonStepVars

\* TrainerClient.get_job, the part of __get_trainjob_from_crd that lists the
\* pods and resolves the steps: list_namespaced_pod(...).get(DEFAULT_TIMEOUT)
\* times out, fails or gives the pod list; any error raised while the steps
\* are resolved is caught and raised again as RuntimeError.
GetJob(api) ==
    /\ job_pc = "idle"
    /\ job_pc' = "done"
    /\ train_job' =
         IF api = "timeout" THEN [outcome |-> "TimeoutError", steps |-> <<>>]
         ELSE IF api = "error" \/ ResolveSteps(pod_list).raised
           THEN [outcome |-> "RuntimeError", steps |-> <<>>]
         ELSE [outcome |-> "ok", steps |-> ResolveSteps(pod_list).steps]
    /\ UNCHANGED pod_list
    /\ UNCHANGED nonStepVars

StepNext ==
    \/ \E pod \in InitializerPods \cup LauncherPods \cup NodePods : PodCreated(pod)
    \/ \E api \in {"ok", "timeout", "error"} : GetJob(api)

StepSpec == StepInit /\ [][StepNext]_vars

-----------------------------------------------------------------------------
(***************************************************************************)
(* Properties of the step resolution.                                      *)
(***************************************************************************)

\* get_job has returned a TrainJob.
Resolved == job_pc = "done" /\ train_job.outcome = "ok"

\* The pod has a container named trainer or launcher, the first of which
\* carries the MPI slots variable with a value made of digits.
HasMpiSlots(pod) ==
    \E k \in 1..Len(pod.spec.containers) :
        /\ pod.spec.containers[k].name \in {TRAINER, MPI_LAUNCHER}
        /\ \A j \in 1..(k - 1) : pod.spec.containers[j].name \notin {TRAINER, MPI_LAUNCHER}
        /\ \E e \in 1..Len(pod.spec.containers[k].env) :
              /\ pod.spec.containers[k].env[e].name = MPI_ENV_NUM_SLOTS_PER_NODE
              /\ IsDigit(pod.spec.containers[k].env[e].value)

\* The name trainer-node-<i>, for i < 10.
TrainerNode(i) == <<"trainer-node", "-", Digits[i + 1]>>

\* C5: the steps of a TrainJob have pairwise distinct names (the pod list
\* holds at most one pod per initializer group, at most one launcher pod, and
\* node pods of distinct indices).
C5_StepNamesDistinct ==
    Resolved =>
        \A a, b \in 1..Len(train_job.steps) :
            a # b => train_job.steps[a].name # train_job.steps[b].name

\* C6: with a launcher pod (of index 0) in the job, the launcher step is
\* trainer-node-0 and the node pod of index i is trainer-node-(i+1); without
\* a launcher pod the node pod of index i is trainer-node-i.
C6_LauncherShift ==
    (Resolved /\ \A k \in 1..Len(pod_list) :
                    pod_list[k].rjob = MPI_LAUNCHER => pod_list[k].job_index = <<"0">>)
    =>
        LET launcher == \E k \in 1..Len(pod_list) : pod_list[k].rjob = MPI_LAUNCHER
        IN  \A k \in 1..Len(pod_list) :
              /\ pod_list[k].rjob = MPI_LAUNCHER =>
                    train_job.steps[k].name = TrainerNode(0)
              /\ pod_list[k].rjob = NODE =>
                    train_job.steps[k].name =
                        TrainerNode(StrToInt(pod_list[k].job_index)
                                      + (IF launcher THEN 1 ELSE 0))

\* C7: a node-group pod of index i whose trainer container carries the MPI
\* slots variable with a digit value is named trainer-node-(i+1), and a
\* launcher-group pod of index i is named trainer-node-i.
C7_MpiNodeNames ==
    Resolved =>
        \A k \in 1..Len(pod_list) :
            /\ (pod_list[k].rjob = NODE /\ HasMpiSlots(pod_list[k])) =>
                  train_job.steps[k].name = TrainerNode(StrToInt(pod_list[k].job_index) + 1)
            /\ pod_list[k].rjob = MPI_LAUNCHER =>
                  train_job.steps[k].name = TrainerNode(StrToInt(pod_list[k].job_index))

\* One launcher pod of index 0 and two node pods of indices 0 and 1 with
\* slots = 4 resolved to trainer-node-0, trainer-node-1 and trainer-node-2.
C7_Witness ==
    /\ Resolved
    /\ Len(pod_list) = 3
    /\ pod_list[1].rjob = MPI_LAUNCHER /\ pod_list[1].job_index = <<"0">>
    /\ \A k \in {2, 3} :
          /\ pod_list[k].rjob = NODE
          /\ pod_list[k].job_index = <<Digits[k - 1]>>
          /\ pod_list[k].spec.containers[1].env = <<Env(MPI_ENV_NUM_SLOTS_PER_NODE, <<"4">>)>>
    /\ \A k \in 1..3 : train_job.steps[k].name = <<"trainer-node", "-", Digits[k]>>

\* The trainer container of a pod of the node or the launcher group.
TrainerContainer(pod) ==
    pod.spec.containers[FirstContainer(pod.spec.containers, {MPI_LAUNCHER, TRAINER})]

\* The values of the torch and of the MPI variable of a container that are
\* made of decimal digits.
DigitValues(container) ==
    {container.env[e].value : e \in
       {x \in 1..Len(container.env) :
          /\ container.env[x].name \in {TORCH_ENV_NUM_PROC_PER_NODE,
                                        MPI_ENV_NUM_SLOTS_PER_NODE}
          /\ container.env[x].value # <<>>
          /\ \A p \in 1..Len(container.env[x].value) :
                container.env[x].value[p] \in {"0", "1", "2", "3", "4", "5", "6", "7", "8", "9"}}}

\* The count the resource limits of a container give, Unknown without limits.
LimitsCount(container) ==
    IF get_container_devices(container.resources).found
      THEN get_container_devices(container.resources).device_count
      ELSE <<UNKNOWN>>

\* C22: the device count of the step of a node or launcher pod is the value
\* of the torch or of the MPI variable of the trainer container when one of
\* them has a value made of decimal digits, whatever the resource limits
\* give; when neither has, the variables are ignored, the count is the one
\* the resource limits give, or Unknown, and no variable makes the step of
\* a pod raise.
C22_EnvOverridesDeviceCount ==
    /\ Resolved =>
         \A k \in 1..Len(pod_list) :
            pod_list[k].rjob \in {NODE, MPI_LAUNCHER} =>
               IF DigitValues(TrainerContainer(pod_list[k])) # {}
                 THEN train_job.steps[k].device_count
                        \in DigitValues(TrainerContainer(pod_list[k]))
                 ELSE train_job.steps[k].device_count
                        = LimitsCount(TrainerContainer(pod_list[k]))
    /\ \A k \in 1..Len(pod_list) :
          (/\ pod_list[k].rjob \in {NODE, MPI_LAUNCHER}
           /\ FirstContainer(pod_list[k].spec.containers, {MPI_LAUNCHER, TRAINER}) # 0
           /\ ~get_container_devices(TrainerContainer(pod_list[k]).resources).raised)
            => ~PodStep(pod_list[k]).raised

\* A job was resolved whose node pod of index 0 has GPU limits of 1 and the
\* torch variable with the value 2, and whose node pod of index 1 has the
\* same limits and the torch variable with the value auto: the counts are 2
\* and 1.
C22_Witness ==
    /\ Resolved
    /\ \E a, b \in {k \in 1..Len(pod_list) : pod_list[k].rjob = NODE} :
          /\ TrainerContainer(pod_list[a]).resources = GpuLimits
          /\ TrainerContainer(pod_list[a]).env = <<Env(TORCH_ENV_NUM_PROC_PER_NODE, <<"2">>)>>
          /\ train_job.steps[a].device_count = <<"2">>
          /\ train_job.steps[a].device = "gpu"
          /\ TrainerContainer(pod_list[b]).resources = GpuLimits
          /\ TrainerContainer(pod_list[b]).env
                = <<Env(TORCH_ENV_NUM_PROC_PER_NODE, <<"a", "u", "t", "o">>)>>
          /\ train_job.steps[b].device_count = <<"1">>

-----------------------------------------------------------------------------
(***************************************************************************)
(* Local job runner: DockerJobRunner over the networks and containers of a *)
(* container engine.  One caller makes one call after the other; a call    *)
(* takes one step per request to the engine.                               *)
(***************************************************************************)

Frameworks == {TORCH, MLX}

RuntimeNames == {"torch-distributed", "mlx-distributed"}

\* runtime_name = None of list_jobs
NoRuntime == "None"

\* f"{constants.LOCAL_TRAIN_JOB_NAME_PREFIX}{utils.generate_train_job_name()}":
\* a prefix followed by a random token; two calls do not return the same token.
TrainJobName(token) == <<"LOCAL_TRAIN_JOB_NAME_PREFIX">> \o IntToStr(token)

JobNames == {TrainJobName(t) : t \in 1..MaxJobs}

\* The id the engine gives the network it creates under a name.
NetworkId(name) == <<"network-id">> \o name

\* A name that counts the units from 1.
ContainerNameFromOne(train_job_name, i) == train_job_name \o <<"-">> \o IntToStr(i + 1)

\* f"{train_job_name}-{i}"
ContainerName(train_job_name, i) == train_job_name \o <<"-">> \o IntToStr(i)

\* An environment that gives every unit the rank 0.
get_container_environment_rank_zero(head_node_address, num_nodes, node_rank) ==
    [PET_NNODES |-> IntToStr(num_nodes),
     PET_NPROC_PER_NODE |-> <<"1">>,
     PET_NODE_RANK |-> IntToStr(0),
     PET_MASTER_ADDR |-> head_node_address,
     PET_MASTER_PORT |-> <<"TORCH_HEAD_NODE_PORT">>]

\* DockerJobRunner.__get_container_environment (the framework is TORCH).
get_container_environment(head_node_address, num_nodes, node_rank) ==
    [PET_NNODES |-> IntToStr(num_nodes),
     PET_NPROC_PER_NODE |-> <<"1">>,
     PET_NODE_RANK |-> IntToStr(node_rank),
     PET_MASTER_ADDR |-> head_node_address,
     PET_MASTER_PORT |-> <<"TORCH_HEAD_NODE_PORT">>]

\* docker_client.networks.create(name=..., driver="bridge", labels={...})
NewNetwork(train_job_name, runtime_name) ==
    [id |-> NetworkId(train_job_name), name |-> train_job_name,
     labels |-> [job_name |-> train_job_name, runtime |-> runtime_name]]

\* docker_client.containers.run(name=..., network=..., labels={...},
\* environment=..., detach=True)
NewContainer(train_job_name, network_id, runtime_name, num_nodes, i) ==
    [name |-> ContainerName(train_job_name, i),
     network |-> network_id,
     labels |-> [job_name |-> train_job_name, node_rank |-> IntToStr(i),
                 runtime |-> runtime_name],
     environment |-> get_container_environment(ContainerName(train_job_name, 0),
                                               num_nodes, i),
     status |-> "running"]

\* A listing that does not filter by job name.
ContainersOfAnyJob(job_name) == docker_containers

\* docker_client.containers.list(filters={"label": [f"{LABEL}={job_name}"]},
\* all=True)
ContainersOfJob(job_name) ==
    {c \in docker_containers : c.labels.job_name = job_name}

\* The elements of a set of containers as a list, the newest (the highest
\* rank of a job) first, as the engine lists them.
RECURSIVE ContainerList(_)
ContainerList(S) ==
    IF S = {} THEN <<>>
    ELSE LET c == CHOOSE x \in S :
                     \A y \in S : StrToInt(y.labels.node_rank) <= StrToInt(x.labels.node_rank)
         IN  <<c>> \o ContainerList(S \ {c})

\* docker_client.networks.get(job_name) finds a network.
NetworkExists(job_name) == \E n \in docker_networks : n.name = job_name

NetworkOf(job_name) == CHOOSE n \in docker_networks : n.name = job_name

\* DockerJobRunner.get_job: raised is TRUE when networks.get raises NotFound.
get_job(job_name) ==
    IF ~NetworkExists(job_name)
      THEN [raised |-> TRUE, name |-> job_name, runtime_name |-> "none",
            containers |-> <<>>, status |-> UNKNOWN]
      ELSE LET list == ContainerList(ContainersOfJob(job_name))
           IN  [raised |-> FALSE,
                name |-> job_name,
                runtime_name |-> NetworkOf(job_name).labels.runtime,
                containers |-> [k \in 1..Len(list) |->
                                  [name |-> list[k].name, status |-> list[k].status]],
                status |-> UNKNOWN]

\* The names of a set of networks as a list, in the order of their names.
RECURSIVE NetworkNames(_)
NetworkNames(S) ==
    IF S = {} THEN <<>>
    ELSE LET n == CHOOSE x \in S :
                     \A y \in S : StrToInt(Tail(x.name)) <= StrToInt(Tail(y.name))
         IN  <<n.name>> \o NetworkNames(S \ {n})

\* DockerJobRunner.__list_job_names: the names of the networks that carry the
\* job-name label and, when a runtime name is given, that runtime label.
list_job_names(runtime_name) ==
    NetworkNames({n \in docker_networks :
                    runtime_name = NoRuntime \/ n.labels.runtime = runtime_name})

RunnerInit ==
    /\ RunnerIdle
    /\ MuxIdle
    /\ StepIdle
    /\ FacadeIdle
    /\ TrainerIdle
    /\ DeviceIdle

Ended(op, outcome) == [NoCall EXCEPT !.op = op, !.outcome = outcome]

\* A create_job that checks the framework after it created the network.
CreateJobCallLateCheck(framework, num_nodes, runtime_name) ==
    /\ r_pc = "idle"
    /\ \E token \in (1..MaxJobs) \ used_tokens :
         /\ used_tokens' = used_tokens \cup {token}
         /\ docker_networks' = docker_networks
                                \cup {NewNetwork(TrainJobName(token), runtime_name)}
         /\ IF framework # TORCH
              THEN /\ r_last' = [Ended("create_job", "RuntimeError") EXCEPT
                                   !.framework = framework]
                   /\ UNCHANGED <<r_pc, r_call>>
              ELSE /\ r_pc' = "create_loop"
                   /\ r_call' = [NoCall EXCEPT
                                   !.op = "create_job", !.framework = framework,
                                   !.num_nodes = num_nodes, !.runtime_name = runtime_name,
                                   !.job_name = TrainJobName(token), !.i = 0]
                   /\ UNCHANGED r_last
    /\ UNCHANGED <<docker_containers, created, deleted>>
    /\ UNCHANGED nonRunnerVars

\* DockerJobRunner.create_job up to the loop: an unsupported framework raises
\* RuntimeError; else the job name is generated and its network created.
CreateJobCall(framework, num_nodes, runtime_name) ==
    /\ r_pc = "idle"
    /\ IF framework # TORCH
         THEN /\ r_last' = [Ended("create_job", "RuntimeError") EXCEPT
                              !.framework = framework]
              /\ UNCHANGED <<docker_networks, used_tokens, r_pc, r_call>>
         ELSE \E token \in (1..MaxJobs) \ used_tokens :
              /\ used_tokens' = used_tokens \cup {token}
              /\ docker_networks' = docker_networks
                                     \cup {NewNetwork(TrainJobName(token), runtime_name)}
              /\ r_pc' = "create_loop"
              /\ r_call' = [NoCall EXCEPT
                              !.op = "create_job", !.framework = framework,
                              !.num_nodes = num_nodes, !.runtime_name = runtime_name,
                              !.job_name = TrainJobName(token), !.i = 0]
              /\ UNCHANGED r_last
    /\ UNCHANGED <<docker_containers, created, deleted>>
    /\ UNCHANGED nonRunnerVars

\* create_job, an iteration of "for i in range(num_nodes)": containers.run.
RunContainer ==
    /\ r_pc = "create_loop"
    /\ r_call.i < r_call.num_nodes
    /\ docker_containers' = docker_containers
         \cup {NewContainer(r_call.job_name, NetworkId(r_call.job_name),
                            r_call.runtime_name, r_call.num_nodes, r_call.i)}
    /\ r_call' = [r_call EXCEPT !.i = @ + 1]
    /\ UNCHANGED <<docker_networks, used_tokens, r_pc, r_last, created, deleted>>
    /\ UNCHANGED nonRunnerVars

\* create_job: the loop is over; return train_job_name.
CreateJobReturn ==
    /\ r_pc = "create_loop"
    /\ r_call.i >= r_call.num_nodes
    /\ r_pc' = "idle"
    /\ r_last' = [r_call EXCEPT !.outcome = "ok"]
    /\ r_call' = NoCall
    /\ created' = [n \in DOMAIN created \cup {r_call.job_name} |->
                     IF n = r_call.job_name
                       THEN [num_nodes |-> r_call.num_nodes,
                             runtime_name |-> r_call.runtime_name]
                       ELSE created[n]]
    /\ UNCHANGED <<docker_networks, docker_containers, used_tokens, deleted>>
    /\ UNCHANGED nonRunnerVars

\* DockerJobRunner.get_job called by the user.
RunnerGetJob(job_name) ==
    /\ r_pc = "idle"
    /\ r_last' = [Ended("get_job", IF get_job(job_name).raised THEN "NotFound" ELSE "ok")
                    EXCEPT !.job_name = job_name,
                           !.jobs = IF get_job(job_name).raised THEN <<>>
                                    ELSE <<get_job(job_name)>>]
    /\ UNCHANGED <<docker_networks, docker_containers, used_tokens, r_pc, r_call,
                   created, deleted>>
    /\ UNCHANGED nonRunnerVars

\* DockerJobRunner.list_jobs up to the loop: jobs = []; __list_job_names.
ListJobsCall(runtime_name) ==
    /\ r_pc = "idle"
    /\ r_pc' = "list_loop"
    /\ r_call' = [NoCall EXCEPT !.op = "list_jobs", !.runtime_name = runtime_name,
                                !.todo = list_job_names(runtime_name)]
    /\ UNCHANGED <<docker_networks, docker_containers, used_tokens, r_last,
                   created, deleted>>
    /\ UNCHANGED nonRunnerVars

\* A list_jobs that leaves out a job that get_job does not find.
ListJobsGetSkipMissing ==
    /\ r_pc = "list_loop"
    /\ r_call.todo # <<>>
    /\ r_call' = [r_call EXCEPT
                    !.todo = Tail(@),
                    !.jobs = IF get_job(Head(r_call.todo)).raised THEN @
                             ELSE Append(@, get_job(Head(r_call.todo)))]
    /\ UNCHANGED <<r_pc, r_last>>
    /\ UNCHANGED <<docker_networks, docker_containers, used_tokens, created, deleted>>
    /\ UNCHANGED nonRunnerVars

\* list_jobs, an iteration of the loop: jobs.append(self.get_job(name)); the
\* error of get_job is not caught.
ListJobsGet ==
    /\ r_pc = "list_loop"
    /\ r_call.todo # <<>>
    /\ IF get_job(Head(r_call.todo)).raised
         THEN /\ r_pc' = "idle"
              /\ r_last' = [r_call EXCEPT !.outcome = "NotFound", !.jobs = <<>>,
                                          !.todo = <<>>]
              /\ r_call' = NoCall
         ELSE /\ r_call' = [r_call EXCEPT !.todo = Tail(@),
                                          !.jobs = Append(@, get_job(Head(r_call.todo)))]
              /\ UNCHANGED <<r_pc, r_last>>
    /\ UNCHANGED <<docker_networks, docker_containers, used_tokens, created, deleted>>
    /\ UNCHANGED nonRunnerVars

\* list_jobs: return jobs.
ListJobsReturn ==
    /\ r_pc = "list_loop"
    /\ r_call.todo = <<>>
    /\ r_pc' = "idle"
    /\ r_last' = [r_call EXCEPT !.outcome = "ok"]
    /\ r_call' = NoCall
    /\ UNCHANGED <<docker_networks, docker_containers, used_tokens, created, deleted>>
    /\ UNCHANGED nonRunnerVars

\* DockerJobRunner.delete_job up to the loop: the containers of the job are
\* listed by label.
DeleteJobCall(job_name) ==
    /\ r_pc = "idle"
    /\ r_pc' = "delete_loop"
    /\ r_call' = [NoCall EXCEPT !.op = "delete_job", !.job_name = job_name,
                                !.todo = ContainerList(ContainersOfJob(job_name))]
    /\ UNCHANGED <<docker_networks, docker_containers, used_tokens, r_last,
                   created, deleted>>
    /\ UNCHANGED nonRunnerVars

\* delete_job, an iteration of "for c in containers": c.remove(force=True).
RemoveContainer ==
    /\ r_pc = "delete_loop"
    /\ r_call.todo # <<>>
    /\ docker_containers' = docker_containers \ {Head(r_call.todo)}
    /\ r_call' = [r_call EXCEPT !.todo = Tail(@)]
    /\ UNCHANGED <<docker_networks, used_tokens, r_pc, r_last, created, deleted>>
    /\ UNCHANGED nonRunnerVars

\* A delete_job that returns without an error when there is no network.
RemoveNetworkSilent ==
    /\ r_pc = "delete_loop"
    /\ r_call.todo = <<>>
    /\ r_pc' = "idle"
    /\ r_call' = NoCall
    /\ r_last' = [r_call EXCEPT !.outcome = "ok"]
    /\ docker_networks' = {n \in docker_networks : n.name # r_call.job_name}
    /\ deleted' = deleted \cup {r_call.job_name}
    /\ UNCHANGED <<docker_containers, used_tokens, created>>
    /\ UNCHANGED nonRunnerVars

\* delete_job after the loop: networks.get(job_name) raises NotFound, or the
\* network is removed and delete_job returns.
RemoveNetwork ==
    /\ r_pc = "delete_loop"
    /\ r_call.todo = <<>>
    /\ r_pc' = "idle"
    /\ r_call' = NoCall
    /\ IF NetworkExists(r_call.job_name)
         THEN /\ docker_networks' = docker_networks \ {NetworkOf(r_call.job_name)}
              /\ r_last' = [r_call EXCEPT !.outcome = "ok"]
              /\ deleted' = deleted \cup {r_call.job_name}
         ELSE /\ r_last' = [r_call EXCEPT !.outcome = "NotFound"]
              /\ UNCHANGED <<docker_networks, deleted>>
    /\ UNCHANGED <<docker_containers, used_tokens, created>>
    /\ UNCHANGED nonRunnerVars

RunnerNext ==
    \/ \E framework \in Frameworks, num_nodes \in 0..MaxNodes, runtime_name \in RuntimeNames :
          CreateJobCall(framework, num_nodes, runtime_name)
    \/ RunContainer
    \/ CreateJobReturn
    \/ \E job_name \in JobNames : RunnerGetJob(job_name)
    \/ \E runtime_name \in RuntimeNames \cup {NoRuntime} : ListJobsCall(runtime_name)
    \/ ListJobsGet
    \/ ListJobsReturn
    \/ \E job_name \in JobNames : DeleteJobCall(job_name)
    \/ RemoveContainer
    \/ RemoveNetwork

RunnerSpec == RunnerInit /\ [][RunnerNext]_vars

\* DockerJobRunner.delete_job called by a second caller, up to the loop.
OtherDeleteJobCall(job_name) ==
    /\ o_pc = "idle"
    /\ o_pc' = "delete_loop"
    /\ o_call' = [NoCall EXCEPT !.op = "delete_job", !.job_name = job_name,
                                !.todo = ContainerList(ContainersOfJob(job_name))]
    /\ UNCHANGED <<runnerVars, muxVars, stepVars, facadeVars, trainerVars, deviceVars>>

\* delete_job of the second caller, an iteration of "for c in containers".
OtherRemoveContainer ==
    /\ o_pc = "delete_loop"
    /\ o_call.todo # <<>>
    /\ docker_containers' = docker_containers \ {Head(o_call.todo)}
    /\ o_call' = [o_call EXCEPT !.todo = Tail(@)]
    /\ UNCHANGED <<docker_networks, used_tokens, r_pc, r_call, r_last, created, deleted, o_pc>>
    /\ UNCHANGED <<muxVars, stepVars, facadeVars, trainerVars, deviceVars>>

\* delete_job of the second caller after the loop: networks.get raises
\* NotFound, or the network is removed and delete_job returns.
OtherRemoveNetwork ==
    /\ o_pc = "delete_loop"
    /\ o_call.todo = <<>>
    /\ o_pc' = "idle"
    /\ o_call' = NoCall
    /\ IF NetworkExists(o_call.job_name)
         THEN /\ docker_networks' = docker_networks \ {NetworkOf(o_call.job_name)}
              /\ deleted' = deleted \cup {o_call.job_name}
         ELSE UNCHANGED <<docker_networks, deleted>>
    /\ UNCHANGED <<docker_containers, used_tokens, r_pc, r_call, r_last, created>>
    /\ UNCHANGED <<muxVars, stepVars, facadeVars, trainerVars, deviceVars>>

\* The runner with two callers: one creates and lists jobs, the other
\* deletes them; the steps of the two interleave.
RunnerConcurrentNext ==
    \/ \E num_nodes \in 1..MaxConcurrentNodes : CreateJobCall(TORCH, num_nodes, "torch-distributed")
    \/ RunContainer
    \/ CreateJobReturn
    \/ ListJobsCall(NoRuntime)
    \/ ListJobsGet
    \/ ListJobsReturn
    \/ \E job_name \in JobNames : OtherDeleteJobCall(job_name)
    \/ OtherRemoveContainer
    \/ OtherRemoveNetwork

RunnerConcurrentSpec == RunnerInit /\ [][RunnerConcurrentNext]_vars

\* A create_job that removes what it created when containers.run raises.
RunContainerFailsRollback ==
    /\ r_pc = "create_loop"
    /\ r_call.i < r_call.num_nodes
    /\ r_pc' = "idle"
    /\ r_last' = [r_call EXCEPT !.outcome = "APIError"]
    /\ r_call' = NoCall
    /\ docker_containers' = docker_containers \ ContainersOfJob(r_call.job_name)
    /\ docker_networks' = docker_networks \ {NetworkOf(r_call.job_name)}
    /\ UNCHANGED <<used_tokens, created, deleted>>
    /\ UNCHANGED nonRunnerVars

\* create_job, an iteration of the loop in which containers.run raises
\* before the engine has created the container (the image cannot be pulled,
\* the create request is refused): the error is not caught.
RunContainerFails ==
    /\ r_pc = "create_loop"
    /\ r_call.i < r_call.num_nodes
    /\ r_pc' = "idle"
    /\ r_last' = [r_call EXCEPT !.outcome = "APIError"]
    /\ r_call' = NoCall
    /\ UNCHANGED <<docker_networks, docker_containers, used_tokens, created, deleted>>
    /\ UNCHANGED nonRunnerVars

\* create_job, an iteration of the loop in which containers.run raises
\* after the engine has created the container (the container cannot be
\* started): the container stays, in the status created.
StartContainerFails ==
    /\ r_pc = "create_loop"
    /\ r_call.i < r_call.num_nodes
    /\ docker_containers' = docker_containers
         \cup {[NewContainer(r_call.job_name, NetworkId(r_call.job_name),
                             r_call.runtime_name, r_call.num_nodes, r_call.i)
                  EXCEPT !.status = "created"]}
    /\ r_pc' = "idle"
    /\ r_last' = [r_call EXCEPT !.outcome = "APIError"]
    /\ r_call' = NoCall
    /\ UNCHANGED <<docker_networks, used_tokens, created, deleted>>
    /\ UNCHANGED nonRunnerVars

\* The runner over an engine whose containers.run may raise; the jobs are
\* jobs of one runtime.
RunnerFaultNext ==
    \/ \E num_nodes \in 0..MaxNodes : CreateJobCall(TORCH, num_nodes, "torch-distributed")
    \/ RunContainer
    \/ RunContainerFails
    \/ StartContainerFails
    \/ CreateJobReturn
    \/ \E job_name \in JobNames : RunnerGetJob(job_name)
    \/ ListJobsCall(NoRuntime)
    \/ ListJobsGet
    \/ ListJobsReturn

RunnerFaultSpec == RunnerInit /\ [][RunnerFaultNext]_vars

-----------------------------------------------------------------------------
(***************************************************************************)
(* Properties of the local job runner.                                     *)
(***************************************************************************)

\* The jobs that a create_job returned and no delete_job has removed.
LiveJobs == DOMAIN created \ deleted

JobNamesOf(jobs) == {jobs[k].name : k \in 1..Len(jobs)}

Matches(job_name, runtime_name) ==
    runtime_name = NoRuntime \/ created[job_name].runtime_name = runtime_name

\* C8: between calls, the result of the last list_jobs is exactly the jobs
\* created and not yet deleted (of the runtime asked for), each once; every
\* listed job, and every job get_job returns, has as many execution units as
\* the num_nodes it was created with; a name delete_job removed is not listed
\* and get_job does not find it.
C8_ListGetDeleteConsistent ==
    r_pc = "idle" =>
      /\ r_last.op = "list_jobs" =>
           /\ r_last.outcome = "ok"
           /\ JobNamesOf(r_last.jobs)
                = {n \in LiveJobs : Matches(n, r_last.runtime_name)}
           /\ Len(r_last.jobs) = Cardinality(JobNamesOf(r_last.jobs))
           /\ JobNamesOf(r_last.jobs) \cap deleted = {}
           /\ \A k \in 1..Len(r_last.jobs) :
                /\ Len(r_last.jobs[k].containers) = created[r_last.jobs[k].name].num_nodes
                /\ r_last.jobs[k].runtime_name = created[r_last.jobs[k].name].runtime_name
      /\ r_last.op = "get_job" =>
           IF r_last.job_name \in LiveJobs
             THEN /\ r_last.outcome = "ok"
                  /\ r_last.jobs[1].name = r_last.job_name
                  /\ Len(r_last.jobs[1].containers) = created[r_last.job_name].num_nodes
             ELSE r_last.outcome = "NotFound"
      /\ (r_last.op = "delete_job" /\ r_last.outcome = "ok") =>
           /\ r_last.job_name \in deleted
           /\ \A k \in 1..Len(list_job_names(NoRuntime)) :
                list_job_names(NoRuntime)[k] # r_last.job_name

\* Two jobs of different sizes were created, one of them was deleted, and
\* list_jobs then returned the other alone with its two execution units.
C8_Witness ==
    /\ r_pc = "idle"
    /\ r_last.op = "list_jobs"
    /\ r_last.runtime_name = NoRuntime
    /\ deleted # {}
    /\ Len(r_last.jobs) = 1
    /\ Len(r_last.jobs[1].containers) = 2

\* C9: a create_job with a framework other than TORCH raises RuntimeError in
\* its first step, and the step that raises leaves the networks and the
\* containers of the engine as they were; no create_job with such a framework
\* gets as far as creating anything.
C9_UnsupportedFrameworkRaises ==
    [][/\ (r_call'.op = "create_job" => r_call'.framework = TORCH)
       /\ (r_last' # r_last /\ r_last'.op = "create_job" /\ r_last'.framework # TORCH) =>
            /\ r_pc = "idle"
            /\ r_pc' = "idle"
            /\ r_last'.outcome = "RuntimeError"
            /\ docker_networks' = docker_networks
            /\ docker_containers' = docker_containers
            /\ used_tokens' = used_tokens]_vars

\* create_job raised for an unsupported framework while the engine held the
\* network and the containers of an earlier job.
C9_Witness ==
    /\ r_pc = "idle"
    /\ r_last.op = "create_job"
    /\ r_last.framework # TORCH
    /\ r_last.outcome = "RuntimeError"
    /\ docker_networks # {}
    /\ docker_containers # {}

\* The execution units of a job: the containers attached to its network or
\* labelled with its name.
UnitsOf(job_name) ==
    {c \in docker_containers :
       c.network = NetworkId(job_name) \/ c.labels.job_name = job_name}

\* C10: when create_job(num_nodes = n) has returned job name j, the engine
\* has exactly one network named j, labelled with j and the runtime name, and
\* exactly n execution units of j, named j-0 ... j-(n-1), each attached to
\* that network and labelled with j, its own rank and the runtime name.
C10_CreateJobCreatesNetworkAndUnits ==
    (r_pc = "idle" /\ r_last.op = "create_job" /\ r_last.outcome = "ok") =>
      LET j == r_last.job_name
          n == r_last.num_nodes
          nets == {net \in docker_networks : net.name = j}
      IN  /\ Cardinality(nets) = 1
          /\ \A net \in nets :
               /\ net.labels = [job_name |-> j, runtime |-> r_last.runtime_name]
               /\ \A c \in UnitsOf(j) : c.network = net.id
          /\ Cardinality(UnitsOf(j)) = n
          /\ {c.name : c \in UnitsOf(j)} = {j \o <<"-">> \o IntToStr(i) : i \in 0..(n - 1)}
          /\ \A c \in UnitsOf(j) :
               \E i \in 0..(n - 1) :
                 /\ c.name = j \o <<"-">> \o IntToStr(i)
                 /\ c.labels = [job_name |-> j, node_rank |-> IntToStr(i),
                                runtime |-> r_last.runtime_name]

\* create_job(num_nodes = 2) returned while another job was there.
C10_Witness ==
    /\ r_pc = "idle"
    /\ r_last.op = "create_job"
    /\ r_last.outcome = "ok"
    /\ r_last.num_nodes = 2
    /\ Cardinality(docker_networks) = 2
    /\ Cardinality(docker_containers) > 2

\* The num_nodes of the create_job that made, or is making, a job.
NumNodesOf(job_name) ==
    IF job_name \in DOMAIN created THEN created[job_name].num_nodes
    ELSE r_call.num_nodes

\* The jobs create_job has returned and no delete_job has started to remove.
WholeJobs ==
    {j \in LiveJobs : ~(r_pc = "delete_loop" /\ r_call.job_name = j)}

\* C11: every execution unit has the rendezvous variables node count = the
\* num_nodes of its job, processes per node = 1, node rank = its own rank,
\* host = the name of the rank-0 unit of its job and the fixed port; the
\* units of a job that create_job returned have pairwise distinct ranks
\* that cover 0 .. num_nodes - 1.
C11_RendezvousEnvironment ==
    /\ \A c \in docker_containers :
         LET j == c.labels.job_name
         IN  /\ c.environment.PET_NNODES = IntToStr(NumNodesOf(j))
             /\ c.environment.PET_NPROC_PER_NODE = <<"1">>
             /\ c.environment.PET_NODE_RANK = c.labels.node_rank
             /\ c.name = j \o <<"-">> \o c.environment.PET_NODE_RANK
             /\ c.environment.PET_MASTER_ADDR = j \o <<"-", "0">>
             /\ c.environment.PET_MASTER_PORT = <<"TORCH_HEAD_NODE_PORT">>
    /\ \A c, d \in docker_containers :
         (c.labels.job_name = d.labels.job_name /\ c # d) =>
            /\ c.environment.PET_NODE_RANK # d.environment.PET_NODE_RANK
            /\ c.environment.PET_NNODES = d.environment.PET_NNODES
            /\ c.environment.PET_MASTER_ADDR = d.environment.PET_MASTER_ADDR
            /\ c.environment.PET_MASTER_PORT = d.environment.PET_MASTER_PORT
    /\ \A j \in WholeJobs :
         {StrToInt(c.environment.PET_NODE_RANK) : c \in UnitsOf(j)}
           = 0..(created[j].num_nodes - 1)

\* Two jobs are there, one of them with two units whose ranks are 0 and 1.
C11_Witness ==
    /\ r_pc = "idle"
    /\ Cardinality(WholeJobs) = 2
    /\ \E j \in WholeJobs :
         /\ created[j].num_nodes = 2
         /\ \E c, d \in UnitsOf(j) :
              /\ c.environment.PET_NODE_RANK = <<"0">>
              /\ d.environment.PET_NODE_RANK = <<"1">>
              /\ d.environment.PET_MASTER_ADDR = c.name

\* The last call was a create_job that ended on an error of containers.run.
CreateFailed == r_last.op = "create_job" /\ r_last.outcome = "APIError"

\* The names of the units of ranks 0..k-1 of a job.
UnitNames(job_name, k) == {ContainerName(job_name, i) : i \in 0..(k - 1)}

\* The names of the jobs list_jobs(None) would return.
ListedNames == {list_job_names(NoRuntime)[p] : p \in 1..Len(list_job_names(NoRuntime))}

\* A get_job or a list_jobs that has just returned gives every job it
\* returns with the units the job has.
ReturnedJobsHaveTheirUnits ==
    (r_pc = "idle" /\ r_last.op \in {"get_job", "list_jobs"} /\ r_last.outcome = "ok") =>
       /\ \A p \in 1..Len(r_last.jobs) :
             Len(r_last.jobs[p].containers)
               = Cardinality(ContainersOfJob(r_last.jobs[p].name))
       /\ (r_last.op = "list_jobs" /\ r_last.runtime_name = NoRuntime) =>
             JobNamesOf(r_last.jobs) = {n.name : n \in docker_networks}

\* C27 as it is stated: after a create_job in which the start of the unit
\* of rank k raised, the network of the job and exactly the units of ranks
\* 0..k-1 exist, create_job has returned no name for the job, and list_jobs
\* and get_job give the job with k units.
C27_FailedCreateLeavesKUnits ==
    /\ CreateFailed =>
         /\ NetworkExists(r_last.job_name)
         /\ {c.name : c \in ContainersOfJob(r_last.job_name)}
              = UnitNames(r_last.job_name, r_last.i)
         /\ r_last.job_name \notin DOMAIN created
         /\ r_last.job_name \in ListedNames
         /\ ~get_job(r_last.job_name).raised
         /\ Len(get_job(r_last.job_name).containers) = r_last.i
    /\ ReturnedJobsHaveTheirUnits

\* C27: after a create_job in which containers.run raised for the unit of
\* rank k, the network of the job and the running units of ranks 0..k-1
\* exist, and the unit of rank k exists in the status created when the
\* engine had created it before the error; create_job has returned no name
\* for the job, and list_jobs and get_job give the job with the units it
\* has: k, or k + 1.
C27_FailedCreateLeavesPartialJob ==
    /\ CreateFailed =>
         /\ r_last.i < r_last.num_nodes
         /\ NetworkExists(r_last.job_name)
         /\ {c.name : c \in {x \in ContainersOfJob(r_last.job_name) : x.status = "running"}}
              = UnitNames(r_last.job_name, r_last.i)
         /\ {c.name : c \in {x \in ContainersOfJob(r_last.job_name) : x.status # "running"}}
              \subseteq {ContainerName(r_last.job_name, r_last.i)}
         /\ r_last.job_name \notin DOMAIN created
         /\ r_last.job_name \in ListedNames
         /\ ~get_job(r_last.job_name).raised
         /\ Len(get_job(r_last.job_name).containers) \in {r_last.i, r_last.i + 1}
    /\ ReturnedJobsHaveTheirUnits

\* A create_job of two nodes failed at rank 1 and left the network and the
\* unit of rank 0; the list_jobs that followed returned the job with one
\* unit, and no create_job has returned its name.
C27_Witness ==
    /\ r_pc = "idle"
    /\ r_last.op = "list_jobs"
    /\ r_last.outcome = "ok"
    /\ \E p \in 1..Len(r_last.jobs) :
          /\ r_last.jobs[p].name \notin DOMAIN created
          /\ Len(r_last.jobs[p].containers) = 1
          /\ r_last.jobs[p].containers[1].status = "running"
          /\ NetworkOf(r_last.jobs[p].name).labels.runtime = r_last.jobs[p].runtime_name

\* The networks and the containers of the jobs other than job_name.
OtherNetworks(networks, job_name) == {n \in networks : n.name # job_name}

OtherContainers(containers, job_name) ==
    {c \in containers : c.labels.job_name # job_name}

\* A step of delete_job removes a container of the job while containers of
\* it are left to remove, and the network only after them; it changes
\* nothing of another job.
DeleteRemovesUnitsThenNetwork ==
    r_pc = "delete_loop" =>
      /\ OtherNetworks(docker_networks', r_call.job_name)
           = OtherNetworks(docker_networks, r_call.job_name)
      /\ OtherContainers(docker_containers', r_call.job_name)
           = OtherContainers(docker_containers, r_call.job_name)
      /\ ContainersOfJob(r_call.job_name) # {} =>
           /\ docker_networks' = docker_networks
           /\ r_pc' = "delete_loop"
           /\ \E c \in ContainersOfJob(r_call.job_name) :
                 docker_containers' = docker_containers \ {c}
      /\ ContainersOfJob(r_call.job_name) = {} =>
           /\ docker_containers' = docker_containers
           /\ r_pc' = "idle"
           /\ r_last'.op = "delete_job"
           /\ r_last'.job_name = r_call.job_name

\* The step that ends delete_job removes the network of the job, or raises
\* NotFound when there is none, as for a name that was deleted before.
DeleteRaisesWithoutNetwork ==
    (r_pc = "delete_loop" /\ r_pc' = "idle") =>
      /\ NetworkExists(r_call.job_name) =>
           /\ r_last'.outcome = "ok"
           /\ docker_networks' = docker_networks \ {NetworkOf(r_call.job_name)}
           /\ r_call.job_name \notin deleted
      /\ ~NetworkExists(r_call.job_name) =>
           /\ r_last'.outcome = "NotFound"
           /\ docker_networks' = docker_networks
      /\ r_call.job_name \in deleted => r_last'.outcome = "NotFound"

\* C29: delete_job(j) removes the containers labelled with the job name j,
\* one by one, and after them the network named j; no step of it changes a
\* network or a container of another job; when there is no network named j
\* it raises NotFound, so a delete_job of a name that was deleted fails.
C29_DeleteRemovesJobOnly ==
    [][DeleteRemovesUnitsThenNetwork /\ DeleteRaisesWithoutNetwork]_vars

\* A second delete_job of a deleted job raised NotFound, while another job
\* still has its network and its containers.
C29_Witness ==
    /\ r_pc = "idle"
    /\ r_last.op = "delete_job"
    /\ r_last.outcome = "NotFound"
    /\ r_last.job_name \in deleted
    /\ \E j \in DOMAIN created :
          /\ j # r_last.job_name
          /\ NetworkExists(j)
          /\ created[j].num_nodes > 0
          /\ Cardinality(ContainersOfJob(j)) = created[j].num_nodes

\* A step of list_jobs that fetches a job whose network is gone ends the
\* call with the error of get_job, and no job is returned.
ListFailsOnDeletedJob ==
    (/\ r_pc = "list_loop"
     /\ r_call.todo # <<>>
     /\ ~NetworkExists(Head(r_call.todo))
     /\ r_call' # r_call)
      => /\ r_pc' = "idle"
         /\ r_last'.op = "list_jobs"
         /\ r_last'.outcome = "NotFound"
         /\ r_last'.jobs = <<>>

\* A list_jobs that returns has found every job it had listed.
ListReturnsWhenAllFound ==
    (r_pc = "list_loop" /\ r_pc' = "idle" /\ r_last'.outcome = "ok")
      => /\ r_call.todo = <<>>
         /\ r_last'.jobs = r_call.jobs

\* C28: list_jobs lists the names of the job networks and then gets each
\* job by name; when a delete_job of another caller has removed the
\* network of a listed job before list_jobs gets the job, list_jobs ends
\* with the error NotFound and returns no job, whatever jobs still exist.
C28_ListJobsFailsOnConcurrentDelete ==
    [][ListFailsOnDeletedJob /\ ListReturnsWhenAllFound]_vars

\* A list_jobs ended with NotFound: a job it had listed was deleted by the
\* other caller, and another job exists, whole, that it did not return.
C28_Witness ==
    /\ r_pc = "idle"
    /\ r_last.op = "list_jobs"
    /\ r_last.outcome = "NotFound"
    /\ r_last.jobs = <<>>
    /\ deleted # {}
    /\ \E j \in DOMAIN created :
          /\ NetworkExists(j)
          /\ ~get_job(j).raised
          /\ Len(get_job(j).containers) = created[j].num_nodes

-----------------------------------------------------------------------------
(***************************************************************************)
(* Job facade: TrainerClient.  The cluster API is outside the program: what *)
(* each of its calls gives is an input of the operation that makes it.  The *)
(* client keeps nothing from one operation to the next, so a behaviour is   *)
(* one operation on a new client.                                           *)
(***************************************************************************)

\* constants.DEFAULT_TIMEOUT
DEFAULT_TIMEOUT == 120

POD_PENDING == "Pending"

\* A call made with async_req=True and waited for with
\* thread.get(constants.DEFAULT_TIMEOUT).
WaitedCall(call) == [call |-> call, timeout |-> DEFAULT_TIMEOUT]

\* A synchronous call: nothing bounds the wait (timeout 0).
SyncCall(call) == [call |-> call, timeout |-> 0]

\* What a waited call gives: the object, multiprocessing.TimeoutError once
\* the wait is over, or another exception.
WaitedOutcomes == {"ok", "timeout", "error"}

\* What a synchronous call gives: the object or an exception, either of them
\* possibly after more than DEFAULT_TIMEOUT seconds.
SyncOutcomes == {"ok", "error", "slow ok", "slow error"}

Slow(api) == api \in {"timeout", "slow ok", "slow error"}

Failed(api) == api \in {"error", "slow error"}

\* A ClusterTrainingRuntime as list_cluster_custom_object returns it.
\* accelerators is what utils.get_runtime_accelerators gives for its ML policy
\* and replicated jobs: a count, or "raise".
RuntimeObject(name, has_spec, has_ml_policy, has_replicated_jobs, label, accelerators) ==
    [name |-> name, has_spec |-> has_spec, has_ml_policy |-> has_ml_policy,
     has_replicated_jobs |-> has_replicated_jobs, label |-> label,
     accelerators |-> accelerators]

RuntimeObjects ==
    {RuntimeObject("torch-distributed", TRUE, TRUE, TRUE, "none", "2"),
     RuntimeObject("mpi-distributed", TRUE, TRUE, TRUE, "GPU-Tesla-V100-16GB", "8"),
     RuntimeObject("broken-trainer", TRUE, TRUE, TRUE, "none", "raise"),
     RuntimeObject("", TRUE, TRUE, TRUE, "none", "2"),
     RuntimeObject("no-spec", FALSE, FALSE, FALSE, "none", "2"),
     RuntimeObject("no-ml-policy", TRUE, FALSE, TRUE, "none", "2"),
     RuntimeObject("no-replicated-jobs", TRUE, TRUE, FALSE, "none", "2")}

\* The test of list_runtimes "runtime and runtime.metadata and
\* runtime.metadata.name and runtime.spec and runtime.spec.ml_policy and
\* runtime.spec.template.spec and ...replicated_jobs".
RuntimeIsValid(runtime) ==
    /\ runtime.name # ""
    /\ runtime.has_spec
    /\ runtime.has_ml_policy
    /\ runtime.has_replicated_jobs

\* utils.get_runtime_accelerators(ml_policy, replicated_jobs)
get_runtime_accelerators(runtime) ==
    [raised |-> runtime.accelerators = "raise", accelerator_count |-> runtime.accelerators]

\* The runtimes of a list when those that are not valid are left out.
RECURSIVE ResolveRuntimesSkipInvalid(_)
ResolveRuntimesSkipInvalid(items) ==
    IF items = <<>> THEN [raised |-> FALSE, result |-> <<>>]
    ELSE LET runtime == Head(items)
             rest == ResolveRuntimesSkipInvalid(Tail(items))
         IN  IF ~RuntimeIsValid(runtime) THEN rest
             ELSE IF get_runtime_accelerators(runtime).raised \/ rest.raised
               THEN [raised |-> TRUE, result |-> <<>>]
             ELSE [raised |-> FALSE,
                   result |-> <<[name |-> runtime.name,
                                 accelerator_count |->
                                   get_runtime_accelerators(runtime).accelerator_count,
                                 accelerator |-> IF runtime.label # "none"
                                                   THEN runtime.label ELSE UNKNOWN]>>
                              \o rest.result]

\* The loop of list_runtimes over response["items"]: a runtime that is not
\* valid raises Exception("Runtime object is invalid"), as does a failure of
\* get_runtime_accelerators; else a types.Runtime is appended.
RECURSIVE ResolveRuntimes(_)
ResolveRuntimes(items) ==
    IF items = <<>> THEN [raised |-> FALSE, result |-> <<>>]
    ELSE LET runtime == Head(items)
             rest == ResolveRuntimes(Tail(items))
         IN  IF ~RuntimeIsValid(runtime) THEN [raised |-> TRUE, result |-> <<>>]
             ELSE IF get_runtime_accelerators(runtime).raised \/ rest.raised
               THEN [raised |-> TRUE, result |-> <<>>]
             ELSE [raised |-> FALSE,
                   result |-> <<[name |-> runtime.name,
                                 accelerator_count |->
                                   get_runtime_accelerators(runtime).accelerator_count,
                                 accelerator |-> IF runtime.label # "none"
                                                   THEN runtime.label ELSE UNKNOWN]>>
                              \o rest.result]

\* Sequences of at most MaxItems elements of S.
ListsOf(S) == UNION {[1..n -> S] : n \in 0..MaxItems}

\* TrainerClient.list_runtimes
ListRuntimes(api, items) ==
    /\ FacadeIdle
    /\ f_last' =
         [NoFacadeCall EXCEPT
            !.op = "list_runtimes", !.api = api, !.runtimes = items,
            !.calls = <<WaitedCall("list_cluster_custom_object")>>,
            !.timed_out = Slow(api),
            !.outcome = IF api = "timeout" THEN "TimeoutError"
                        ELSE IF api = "error" \/ ResolveRuntimes(items).raised
                          THEN "RuntimeError"
                        ELSE "ok",
            !.result = IF api = "ok" /\ ~ResolveRuntimes(items).raised
                         THEN ResolveRuntimes(items).result ELSE <<>>]
    /\ UNCHANGED nonFacadeVars

\* A TrainJob as the cluster API returns it: valid says that metadata.name,
\* metadata.namespace, metadata.creation_timestamp and spec are there; pods
\* is what list_namespaced_pod gives for the job.
TrainJobObject(name, valid, runtime_ref, conditions, pods) ==
    [name |-> name, valid |-> valid, runtime_ref |-> runtime_ref,
     conditions |-> conditions, pods |-> pods]

Condition(type, status) == [type |-> type, status |-> status]

TrainerPod(index, status) ==
    Pod(NODE, index, <<Container(TRAINER, <<>>, NoResources)>>, status)

TrainJobObjects ==
    {TrainJobObject("job-a", TRUE, "torch-distributed", <<>>, <<>>),
     TrainJobObject("job-a", TRUE, "torch-distributed",
                    <<Condition("Created", "True")>>, <<TrainerPod(0, POD_PENDING)>>),
     TrainJobObject("job-b", TRUE, "mpi-distributed",
                    <<Condition("Created", "True"), Condition("Complete", "True")>>,
                    <<TrainerPod(0, "Succeeded")>>),
     TrainJobObject("job-b", TRUE, "mpi-distributed",
                    <<Condition("Suspended", "True")>>, <<>>),
     TrainJobObject("job-c", FALSE, "torch-distributed", <<>>, <<>>),
     TrainJobObject("job-c", TRUE, "torch-distributed", <<>>,
                    <<Pod(NODE, 0, <<Container("sidecar", <<>>, NoResources)>>, "Running")>>)}

\* The loop of __get_trainjob_from_crd over status.conditions: the value of
\* the local variable status after it, "unbound" when no branch assigned it.
RECURSIVE StatusAfter(_, _)
StatusAfter(conditions, status) ==
    IF conditions = <<>> THEN status
    ELSE LET c == Head(conditions)
         IN  StatusAfter(Tail(conditions),
                 IF c.type = "Created" /\ c.status = "True" THEN "Created"
                 ELSE IF c.type = "Complete" /\ c.status = "True" THEN "Succeeded"
                 ELSE IF c.type = "Failed" /\ c.status = "True" THEN "Failed"
                 ELSE status)

\* What __get_trainjob_from_crd gives.
CrdResult(outcome, timed_out, calls, status, steps) ==
    [outcome |-> outcome, timed_out |-> timed_out, calls |-> calls,
     status |-> status, steps |-> steps]

\* TrainerClient.__get_trainjob_from_crd: a CRD that is not valid raises
\* Exception; conditions of which none assigns status raise
\* UnboundLocalError at "train_job.status = status"; then the pods are
\* listed and waited for, and inside that try a timeout of the wait raises
\* TimeoutError and anything else RuntimeError.
get_trainjob_from_crd(trainjob_crd, pods_api) ==
    IF ~trainjob_crd.valid
      THEN CrdResult("Exception", FALSE, <<>>, "none", <<>>)
    ELSE IF /\ trainjob_crd.conditions # <<>>
            /\ StatusAfter(trainjob_crd.conditions, "unbound") = "unbound"
      THEN CrdResult("UnboundLocalError", FALSE, <<>>, "none", <<>>)
    ELSE LET status == StatusAfter(trainjob_crd.conditions, UNKNOWN)
             calls == <<WaitedCall("list_namespaced_pod")>>
         IN  IF pods_api = "timeout"
               THEN CrdResult("TimeoutError", TRUE, calls, status, <<>>)
             ELSE IF pods_api = "error" \/ ResolveSteps(trainjob_crd.pods).raised
               THEN CrdResult("RuntimeError", FALSE, calls, status, <<>>)
             ELSE CrdResult("ok", FALSE, calls, status,
                            ResolveSteps(trainjob_crd.pods).steps)

\* The loop of list_jobs over trainjob_list.items, inside its try: a job of
\* another runtime is passed over; the first __get_trainjob_from_crd that
\* raises ends the loop.
RECURSIVE ResolveJobs(_, _, _)
ResolveJobs(items, runtime_ref, pods_api) ==
    IF items = <<>> THEN CrdResult("ok", FALSE, <<>>, "none", <<>>)
    ELSE IF runtime_ref # "None" /\ Head(items).runtime_ref # runtime_ref
      THEN ResolveJobs(Tail(items), runtime_ref, Tail(pods_api))
    ELSE LET first == get_trainjob_from_crd(Head(items), Head(pods_api))
             rest == ResolveJobs(Tail(items), runtime_ref, Tail(pods_api))
         IN  IF first.outcome # "ok" THEN first
             ELSE IF rest.outcome # "ok"
               THEN [rest EXCEPT !.calls = first.calls \o rest.calls]
             ELSE CrdResult("ok", FALSE, first.calls \o rest.calls, "none",
                            <<[name |-> Head(items).name, status |-> first.status,
                               steps |-> first.steps]>> \o rest.steps)

\* TrainerClient.train: the TrainJob is built and created with a synchronous
\* create_namespaced_custom_object; an exception of it raises RuntimeError.
Train(api) ==
    /\ FacadeIdle
    /\ f_last' =
         [NoFacadeCall EXCEPT
            !.op = "train", !.api = api,
            !.calls = <<SyncCall("create_namespaced_custom_object")>>,
            !.timed_out = Slow(api),
            !.outcome = IF Failed(api) THEN "RuntimeError" ELSE "ok"]
    /\ UNCHANGED nonFacadeVars

\* TrainerClient.list_jobs: every exception raised inside its try that is not
\* multiprocessing.TimeoutError, the TimeoutError of __get_trainjob_from_crd
\* among them, raises RuntimeError.
ListJobs(api, items, runtime_ref, pods_api) ==
    /\ FacadeIdle
    /\ Len(pods_api) = Len(items)
    /\ LET jobs == ResolveJobs(items, runtime_ref, pods_api)
       IN  f_last' =
             [NoFacadeCall EXCEPT
                !.op = "list_jobs", !.api = api, !.jobs = items,
                !.name = runtime_ref, !.pods_api = pods_api,
                !.calls = <<WaitedCall("list_namespaced_custom_object")>>
                          \o (IF api = "ok" THEN jobs.calls ELSE <<>>),
                !.timed_out = Slow(api) \/ (api = "ok" /\ jobs.timed_out),
                !.outcome = IF api = "timeout" THEN "TimeoutError"
                            ELSE IF api = "error" \/ jobs.outcome # "ok"
                              THEN "RuntimeError"
                            ELSE "ok",
                !.result = IF api = "ok" /\ jobs.outcome = "ok" THEN jobs.steps ELSE <<>>]
    /\ UNCHANGED nonFacadeVars

\* What TrainerClient.get_job gives: the wait for
\* get_namespaced_custom_object inside the try, then
\* __get_trainjob_from_crd outside of it.
get_trainjob(api, trainjob_crd, pods_api) ==
    LET call == <<WaitedCall("get_namespaced_custom_object")>>
        job == get_trainjob_from_crd(trainjob_crd, pods_api)
    IN  IF api = "timeout" THEN CrdResult("TimeoutError", TRUE, call, "none", <<>>)
        ELSE IF api = "error" THEN CrdResult("RuntimeError", FALSE, call, "none", <<>>)
        ELSE [job EXCEPT !.calls = call \o job.calls]

\* TrainerClient.get_job
FacadeGetJob(api, trainjob_crd, pods_api) ==
    /\ FacadeIdle
    /\ LET job == get_trainjob(api, trainjob_crd, pods_api)
       IN  f_last' =
             [NoFacadeCall EXCEPT
                !.op = "get_job", !.api = api, !.jobs = <<trainjob_crd>>,
                !.name = trainjob_crd.name, !.pods_api = <<pods_api>>,
                !.calls = job.calls, !.timed_out = job.timed_out,
                !.outcome = job.outcome,
                !.result = IF job.outcome = "ok"
                             THEN <<[name |-> trainjob_crd.name, status |-> job.status,
                                     steps |-> job.steps]>>
                             ELSE <<>>]
    /\ UNCHANGED nonFacadeVars

\* The loop of get_job_logs over the steps: the pod of the last step that is
\* not pending and is named step or f"{step}-{node_rank}"; <<>> for None.
RECURSIVE PodNameOf(_, _, _)
PodNameOf(steps, step, node_rank) ==
    IF steps = <<>> THEN <<>>
    ELSE LET c == steps[Len(steps)]
         IN  IF /\ c.status # POD_PENDING
                /\ (c.name = <<step>> \/ c.name = <<step, "-">> \o IntToStr(node_rank))
               THEN <<c.pod_name>>
               ELSE PodNameOf(SubSeq(steps, 1, Len(steps) - 1), step, node_rank)

\* TrainerClient.get_job_logs with follow = False: get_job, outside any
\* try; {} when no pod is found; else a synchronous read_namespaced_pod_log
\* whose every exception raises RuntimeError.
GetJobLogs(api, trainjob_crd, pods_api, step, log_api) ==
    /\ FacadeIdle
    /\ LET job == get_trainjob(api, trainjob_crd, pods_api)
           read == job.outcome = "ok" /\ PodNameOf(job.steps, step, 0) # <<>>
       IN  f_last' =
             [NoFacadeCall EXCEPT
                !.op = "get_job_logs", !.api = api, !.jobs = <<trainjob_crd>>,
                !.name = trainjob_crd.name, !.pods_api = <<pods_api>>,
                !.step = step, !.log_api = log_api,
                !.calls = job.calls
                          \o (IF read THEN <<SyncCall("read_namespaced_pod_log")>> ELSE <<>>),
                !.timed_out = job.timed_out \/ (read /\ Slow(log_api)),
                !.outcome = IF job.outcome # "ok" THEN job.outcome
                            ELSE IF read /\ Failed(log_api) THEN "RuntimeError"
                            ELSE "ok",
                !.result = IF read /\ ~Failed(log_api)
                             THEN PodNameOf(job.steps, step, 0) ELSE <<>>]
    /\ UNCHANGED nonFacadeVars

\* TrainerClient.delete_job: a synchronous delete_namespaced_custom_object;
\* an exception of it raises RuntimeError.
DeleteJob(api, name) ==
    /\ FacadeIdle
    /\ f_last' =
         [NoFacadeCall EXCEPT
            !.op = "delete_job", !.api = api, !.name = name,
            !.calls = <<SyncCall("delete_namespaced_custom_object")>>,
            !.timed_out = Slow(api),
            !.outcome = IF Failed(api) THEN "RuntimeError" ELSE "ok"]
    /\ UNCHANGED nonFacadeVars

FacadeInit ==
    /\ FacadeIdle
    /\ MuxIdle
    /\ StepIdle
    /\ RunnerIdle
    /\ TrainerIdle
    /\ DeviceIdle

FacadeNext ==
    \/ FacadeIdle /\ \E api \in WaitedOutcomes, items \in ListsOf(RuntimeObjects) :
          ListRuntimes(api, items)
    \/ FacadeIdle /\ \E api \in SyncOutcomes : Train(api)
    \/ FacadeIdle /\ \E api \in WaitedOutcomes, items \in ListsOf(TrainJobObjects),
          runtime_ref \in {"None", "torch-distributed"},
          pods_api \in ListsOf(WaitedOutcomes) :
          ListJobs(api, items, runtime_ref, pods_api)
    \/ FacadeIdle /\ \E api \in WaitedOutcomes, trainjob_crd \in TrainJobObjects,
          pods_api \in WaitedOutcomes :
          FacadeGetJob(api, trainjob_crd, pods_api)
    \/ FacadeIdle /\ \E api \in WaitedOutcomes, trainjob_crd \in TrainJobObjects,
          pods_api \in WaitedOutcomes, step \in {NODE, DATASET_INITIALIZER},
          log_api \in SyncOutcomes :
          GetJobLogs(api, trainjob_crd, pods_api, step, log_api)
    \/ FacadeIdle /\ \E api \in SyncOutcomes, name \in {"job-a", "job-b"} : DeleteJob(api, name)

FacadeSpec == FacadeInit /\ [][FacadeNext]_vars

-----------------------------------------------------------------------------
(***************************************************************************)
(* Properties of the job facade.                                           *)
(***************************************************************************)

\* C12: whatever the cluster API gives, an operation of the facade returns
\* or raises TimeoutError or RuntimeError, and nothing else.
C12_OnlyTwoFailureKinds ==
    f_last.outcome \in {"none", "ok", "TimeoutError", "RuntimeError"}

\* C13: every call an operation makes to the cluster API is waited for with
\* DEFAULT_TIMEOUT, and an operation one of whose calls took longer than
\* that raises TimeoutError.
C13_CallsBoundedTimeoutsReported ==
    /\ \A k \in 1..Len(f_last.calls) : f_last.calls[k].timeout = DEFAULT_TIMEOUT
    /\ f_last.timed_out => f_last.outcome = "TimeoutError"

\* C14: when the list of runtimes is fetched and holds a runtime without a
\* name, spec, ML policy or replicated jobs, while the other runtimes
\* resolve, list_runtimes returns the other runtimes.
C14_InvalidRuntimeSkipped ==
    (/\ f_last.op = "list_runtimes"
     /\ f_last.api = "ok"
     /\ \E k \in 1..Len(f_last.runtimes) : ~RuntimeIsValid(f_last.runtimes[k])
     /\ ~ResolveRuntimesSkipInvalid(f_last.runtimes).raised)
    => /\ f_last.outcome = "ok"
       /\ f_last.result = ResolveRuntimesSkipInvalid(f_last.runtimes).result

\* A condition that the status roll-up takes into account.
RolledUp(c) == c.status = "True" /\ c.type \in {"Created", "Complete", "Failed"}

\* The status reported for the type of such a condition.
ReportedAs(type) ==
    IF type = "Created" THEN "Created"
    ELSE IF type = "Complete" THEN "Succeeded"
    ELSE "Failed"

\* The TrainJob of the last get_job was fetched, is valid, and its pods were
\* listed and resolve.
JobFetched ==
    /\ f_last.op = "get_job"
    /\ f_last.api = "ok"
    /\ f_last.jobs[1].valid
    /\ f_last.pods_api = <<"ok">>
    /\ ~ResolveSteps(f_last.jobs[1].pods).raised

\* C30: get_job of a TrainJob with conditions reports the status of the
\* last condition of the list that has status True and type Created,
\* Complete or Failed, as Created, Succeeded or Failed; a TrainJob without
\* conditions is reported with the default status, Unknown.
C30_StatusRollUp ==
    JobFetched =>
      /\ f_last.outcome = "ok"
      /\ LET conditions == f_last.jobs[1].conditions
             status == f_last.result[1].status
         IN  IF conditions = <<>> THEN status = UNKNOWN
             ELSE \E k \in 1..Len(conditions) :
                    /\ RolledUp(conditions[k])
                    /\ \A l \in (k + 1)..Len(conditions) : ~RolledUp(conditions[l])
                    /\ status = ReportedAs(conditions[k].type)

-----------------------------------------------------------------------------
(***************************************************************************)
(* Device resolver: utils.get_container_devices on every resources value   *)
(* of a bounded set.                                                       *)
(***************************************************************************)

\* The values of a key of limits.
QuantityOptions ==
    {Absent, NoneQuantity, StrQuantity(<<"5", "0", "0", "m">>)}
      \cup {IntQuantity(n) : n \in 1..MaxQuantity}

\* resources without limits, and resources with every limits dict over the
\* GPU, TPU, CPU and memory keys (the empty dict among them).
AllResources ==
    {NoResources} \cup {Limits(limits) : limits \in [ResourceKeys -> QuantityOptions]}

DeviceInit ==
    /\ d_resources \in AllResources
    /\ d_devices = NotCalled
    /\ MuxIdle
    /\ StepIdle
    /\ RunnerIdle
    /\ FacadeIdle
    /\ TrainerIdle

\* The call get_container_devices(resources).
GetContainerDevices ==
    /\ d_devices = NotCalled
    /\ d_devices' = get_container_devices(d_resources)
    /\ UNCHANGED d_resources
    /\ UNCHANGED nonDeviceVars

DeviceNext == GetContainerDevices

DeviceSpec == DeviceInit /\ [][DeviceNext]_vars

-----------------------------------------------------------------------------
(***************************************************************************)
(* Properties of the device resolver.                                      *)
(***************************************************************************)

Called == d_devices # NotCalled

\* The limits hold the key.
Present(key) == d_resources.has_limits /\ d_resources.limits[key].kind # "absent"

\* The result is the device kind and the quantity of the key.
IsDeviceOf(kind, key) ==
    LET q == d_resources.limits[key]
    IN  /\ ~d_devices.raised
        /\ d_devices.found
        /\ d_devices.device = kind
        /\ q.kind = "int" => d_devices.device_count = IntToStr(q.int)
        /\ q.kind = "str" => d_devices.device_count = q.str
        /\ q.kind \in {"int", "str"}

\* C15 as stated: limits with at least one of the GPU, TPU and CPU keys give
\* the kind and the quantity of the first of them that is present.
C15_FirstKeyWins ==
    Called =>
      /\ Present(GPU_LABEL) => IsDeviceOf("gpu", GPU_LABEL)
      /\ (~Present(GPU_LABEL) /\ Present(TPU_LABEL)) => IsDeviceOf("tpu", TPU_LABEL)
      /\ (~Present(GPU_LABEL) /\ ~Present(TPU_LABEL) /\ Present(CPU_LABEL))
            => IsDeviceOf("cpu", CPU_LABEL)

\* The quantity the limits hold for the key is not None.
HasQuantity(key) == Present(key) /\ d_resources.limits[key].kind # "none"

\* The quantity the limits hold for the key is None.
NoQuantity(key) == Present(key) /\ d_resources.limits[key].kind = "none"

\* C15, amended: limits with at least one of the GPU, TPU and CPU keys give
\* the kind and the quantity of the first of them that is present, whatever
\* the later keys and the other keys hold, when that quantity is not None;
\* when it is None the call raises.
C15_FirstKeyWinsUnlessNone ==
    Called =>
      /\ HasQuantity(GPU_LABEL) => IsDeviceOf("gpu", GPU_LABEL)
      /\ (~Present(GPU_LABEL) /\ HasQuantity(TPU_LABEL)) => IsDeviceOf("tpu", TPU_LABEL)
      /\ (~Present(GPU_LABEL) /\ ~Present(TPU_LABEL) /\ HasQuantity(CPU_LABEL))
            => IsDeviceOf("cpu", CPU_LABEL)
      /\ (\/ NoQuantity(GPU_LABEL)
          \/ ~Present(GPU_LABEL) /\ NoQuantity(TPU_LABEL)
          \/ ~Present(GPU_LABEL) /\ ~Present(TPU_LABEL) /\ NoQuantity(CPU_LABEL))
            => d_devices.raised

\* The limits hold the TPU, CPU and memory keys with other quantities than
\* the GPU key, and the call gave the GPU and its quantity.
C15_Witness ==
    /\ Called
    /\ d_resources.has_limits
    /\ d_resources.limits[GPU_LABEL] = IntQuantity(2)
    /\ d_resources.limits[TPU_LABEL] = IntQuantity(1)
    /\ d_resources.limits[CPU_LABEL] = StrQuantity(<<"5", "0", "0", "m">>)
    /\ d_resources.limits["memory"] = NoneQuantity
    /\ d_devices.device = "gpu"
    /\ d_devices.device_count = <<"2">>

\* C16: resources whose limits are absent, empty or hold none of the GPU,
\* TPU and CPU keys give the unknown device and count, and no error.
C16_NoKeyGivesUnknown ==
    (Called /\ ~Present(GPU_LABEL) /\ ~Present(TPU_LABEL) /\ ~Present(CPU_LABEL)) =>
      /\ ~d_devices.raised
      /\ ~d_devices.found
      /\ d_devices.device = UNKNOWN

-----------------------------------------------------------------------------
(***************************************************************************)
(* Trainer resolution: utils.get_runtime_trainer.  A Trainer is an object  *)
(* of the module: ALL_TRAINERS and DEFAULT_TRAINER hold the objects, and   *)
(* what a call returns is a reference to one of them.                      *)
(***************************************************************************)

\* A container image as its parts between ":" (name and tag).
Image(name, tag) == IF tag = "" THEN <<name>> ELSE <<name, tag>>

\* trainer_container.image.split(":")[0]
ImageName(image) == Head(image)

RuntimeContainer(name, image, resources) ==
    [name |-> name, image |-> image, resources |-> resources]

\* A replicated job: valid_template says that template.spec and
\* template.spec.template.spec are there, ancestor that the template carries
\* the TRAINJOB_ANCESTOR_LABEL.
ReplicatedJob(valid_template, ancestor, containers) ==
    [valid_template |-> valid_template, ancestor |-> ancestor, containers |-> containers]

\* What get_runtime_trainer_container gives: a container, None or an error.
NoContainer == [raised |-> FALSE, found |-> FALSE, container |-> RuntimeContainer("", <<>>, NoResources)]

\* A lookup that does not test the ancestor label of the replicated job.
RECURSIVE get_runtime_trainer_container_any_job(_)
get_runtime_trainer_container_any_job(replicated_jobs) ==
    IF replicated_jobs = <<>> THEN NoContainer
    ELSE LET rjob == Head(replicated_jobs)
             k == FirstContainer(rjob.containers, {TRAINER, MPI_LAUNCHER})
         IN  IF ~rjob.valid_template THEN [NoContainer EXCEPT !.raised = TRUE]
             ELSE IF k = 0
               THEN get_runtime_trainer_container_any_job(Tail(replicated_jobs))
             ELSE [raised |-> FALSE, found |-> TRUE, container |-> rjob.containers[k]]

\* utils.get_runtime_trainer_container
RECURSIVE get_runtime_trainer_container(_)
get_runtime_trainer_container(replicated_jobs) ==
    IF replicated_jobs = <<>> THEN NoContainer
    ELSE LET rjob == Head(replicated_jobs)
             k == FirstContainer(rjob.containers, {TRAINER, MPI_LAUNCHER})
         IN  IF ~rjob.valid_template THEN [NoContainer EXCEPT !.raised = TRUE]
             ELSE IF ~rjob.ancestor \/ k = 0
               THEN get_runtime_trainer_container(Tail(replicated_jobs))
             ELSE [raised |-> FALSE, found |-> TRUE, container |-> rjob.containers[k]]

\* The object a reference stands for.
Deref(ref) == IF ref = "default" THEN DEFAULT_TRAINER ELSE ALL_TRAINERS[ref]

\* types.ALL_TRAINERS.get(image_name, types.DEFAULT_TRAINER)
TrainerRef(image_name) ==
    IF image_name \in DOMAIN ALL_TRAINERS THEN image_name ELSE "default"

\* An override in which the MPI policy comes first.
PolicyCountMpiFirst(accelerator_count, ml_policy) ==
    IF ml_policy.mpi # 0 THEN IntQuantity(ml_policy.mpi)
    ELSE IF ml_policy.torch.kind = "int" THEN IntQuantity(ml_policy.torch.int)
    ELSE accelerator_count

\* "Torch and MPI plugins override accelerator count": a Torch policy with
\* num_proc_per_node sets the count when the value is an int; only without
\* one does mpi.num_proc_per_node, when set, set the count.
PolicyCount(accelerator_count, ml_policy) ==
    IF ml_policy.torch.kind # "absent"
      THEN IF ml_policy.torch.kind = "int" THEN IntQuantity(ml_policy.torch.int)
           ELSE accelerator_count
    ELSE IF ml_policy.mpi # 0 THEN IntQuantity(ml_policy.mpi)
    ELSE accelerator_count

\* "Multiply accelerator_count by the number of nodes": only a count that is
\* an int or a float is multiplied.
TimesNodes(accelerator_count, num_nodes) ==
    IF accelerator_count.kind = "int" /\ num_nodes # 0
      THEN IntQuantity(accelerator_count.int * num_nodes)
      ELSE accelerator_count

\* The fields of the Trainer object after get_runtime_trainer has worked on
\* it: the count from the devices of the container, the policies and the
\* node count, the accelerator from the label; a field that no statement
\* assigns keeps the value the object had.
ResolvedTrainer(trainer, devices, ml_policy, label) ==
    [trainer EXCEPT
       !.accelerator_count =
          TimesNodes(PolicyCount(IF devices.found THEN StrQuantity(devices.device_count)
                                                  ELSE trainer.accelerator_count,
                                 ml_policy),
                     ml_policy.num_nodes),
       !.accelerator = IF label # "none" THEN label ELSE trainer.accelerator]

TrainerInit ==
    /\ TrainerIdle
    /\ MuxIdle
    /\ StepIdle
    /\ RunnerIdle
    /\ FacadeIdle
    /\ DeviceIdle

\* utils.get_runtime_trainer: raises when there is no trainer container with
\* an image or when get_container_devices raises; else the Trainer object of
\* the image is updated in place and returned.
GetRuntimeTrainer(replicated_jobs, ml_policy, label) ==
    /\ t_last.calls < MaxResolutions
    /\ LET c == get_runtime_trainer_container(replicated_jobs)
           has_image == ~c.raised /\ c.found /\ c.container.image # <<>>
           devices == IF has_image THEN get_container_devices(c.container.resources)
                      ELSE NoDevices
           ref == IF has_image THEN TrainerRef(ImageName(c.container.image)) ELSE "none"
           call == [NoResolution EXCEPT
                      !.calls = t_last.calls + 1, !.replicated_jobs = replicated_jobs,
                      !.ml_policy = ml_policy, !.label = label, !.devices = devices]
       IN  IF ~has_image \/ devices.raised
             THEN /\ t_last' = [call EXCEPT !.raised = TRUE]
                  /\ UNCHANGED <<ALL_TRAINERS, DEFAULT_TRAINER, returned>>
             ELSE LET trainer == ResolvedTrainer(Deref(ref), devices, ml_policy, label)
                  IN  /\ t_last' = [call EXCEPT !.ref = ref, !.before = Deref(ref)]
                      /\ IF ref = "default"
                           THEN /\ DEFAULT_TRAINER' = trainer
                                /\ UNCHANGED ALL_TRAINERS
                           ELSE /\ ALL_TRAINERS' = [ALL_TRAINERS EXCEPT ![ref] = trainer]
                                /\ UNCHANGED DEFAULT_TRAINER
                      /\ returned' = Append(returned, [ref |-> ref, value |-> trainer])
    /\ UNCHANGED nonTrainerVars

\* The replicated jobs of the runtimes that are resolved.
NodeJob(image, resources) ==
    <<ReplicatedJob(TRUE, FALSE, <<RuntimeContainer(TRAINER, Image("busybox", ""), NoResources)>>),
      ReplicatedJob(TRUE, TRUE, <<RuntimeContainer(TRAINER, image, resources)>>)>>

ReplicatedJobsOptions ==
    {NodeJob(Image("pytorch/pytorch", "2.5"), NoResources),
     NodeJob(Image("pytorch/pytorch", "2.5"),
             Limits([k \in ResourceKeys |->
                       IF k = GPU_LABEL THEN IntQuantity(MaxQuantity) ELSE Absent])),
     NodeJob(Image("example.com/custom", ""), NoResources),
     NodeJob(Image("pytorch/pytorch", ""),
             Limits([k \in ResourceKeys |->
                       IF k = "memory" THEN StrQuantity(<<"4", "G", "i">>) ELSE Absent])),
     <<ReplicatedJob(TRUE, TRUE, <<RuntimeContainer("sidecar", Image("busybox", ""), NoResources)>>)>>}

MLPolicies ==
    {MLPolicy(torch, mpi, num_nodes) :
       torch \in {Absent, IntQuantity(4), StrQuantity(<<"a", "u", "t", "o">>)},
       mpi \in {0, 3}, num_nodes \in {0, 2}}

AcceleratorLabels == {"none", "GPU-Tesla-V100-16GB"}

TrainerNext ==
    /\ t_last.calls < MaxResolutions
    /\ \E replicated_jobs \in ReplicatedJobsOptions, ml_policy \in MLPolicies,
          label \in AcceleratorLabels :
          GetRuntimeTrainer(replicated_jobs, ml_policy, label)

TrainerSpec == TrainerInit /\ [][TrainerNext]_vars

-----------------------------------------------------------------------------
(***************************************************************************)
(* Properties of the trainer resolution.                                   *)
(***************************************************************************)

\* The last get_runtime_trainer returned a Trainer.
Returned == t_last.calls > 0 /\ ~t_last.raised

\* The Trainer the last call returned, as it is now.
LastTrainer == Deref(t_last.ref)

\* The number a count stands for, -1 when it stands for none.
Numeric(count) ==
    IF count.kind = "int" THEN count.int
    ELSE IF count.kind = "str" /\ IsDigit(count.str) THEN StrToInt(count.str)
    ELSE -1

\* A policy of the last call sets the per-node count.
Overridden ==
    \/ t_last.ml_policy.torch.kind = "int"
    \/ t_last.ml_policy.torch.kind = "absent" /\ t_last.ml_policy.mpi # 0

\* The per-node count of the last call: that of the policy, else that of the
\* resource limits of the trainer container.
PerNode ==
    IF t_last.ml_policy.torch.kind = "int" THEN t_last.ml_policy.torch.int
    ELSE IF t_last.ml_policy.torch.kind = "absent" /\ t_last.ml_policy.mpi # 0
      THEN t_last.ml_policy.mpi
    ELSE Numeric(StrQuantity(t_last.devices.device_count))

\* C17: when the per-node count comes from the resource limits or from a
\* policy and the node count is declared, the total accelerator count is
\* their product.
C17_TotalIsPerNodeTimesNodes ==
    (/\ Returned
     /\ Overridden \/ t_last.devices.found
     /\ t_last.ml_policy.num_nodes # 0)
    => Numeric(LastTrainer.accelerator_count) = PerNode * t_last.ml_policy.num_nodes

\* C18: a Torch policy with an int per-node count decides the count, with
\* or without an MPI policy and whatever the resource limits and the object
\* held before; without a Torch policy the MPI per-node count decides it; a
\* Torch policy whose value is not an int leaves the MPI value without
\* effect too.  The count is the value times the node count when one is
\* declared.
C18_PolicyOverridesCount ==
    Returned =>
      LET policy == t_last.ml_policy
          nodes == IF policy.num_nodes # 0 THEN policy.num_nodes ELSE 1
      IN  /\ policy.torch.kind = "int"
               => LastTrainer.accelerator_count = IntQuantity(policy.torch.int * nodes)
          /\ (policy.torch.kind = "absent" /\ policy.mpi # 0)
               => LastTrainer.accelerator_count = IntQuantity(policy.mpi * nodes)
          /\ policy.torch.kind = "str"
               => LastTrainer.accelerator_count =
                    TimesNodes(IF t_last.devices.found
                                 THEN StrQuantity(t_last.devices.device_count)
                                 ELSE t_last.before.accelerator_count,
                               policy.num_nodes)

\* The second call has a Torch policy of 4 processes per node, an MPI
\* policy, resource limits and 2 nodes, and gave 8.
C18_Witness ==
    /\ Returned
    /\ t_last.calls = 2
    /\ t_last.ml_policy.torch = IntQuantity(4)
    /\ t_last.ml_policy.mpi = 3
    /\ t_last.ml_policy.num_nodes = 2
    /\ t_last.devices.found
    /\ t_last.before.accelerator_count.kind = "int"
    /\ LastTrainer.accelerator_count = IntQuantity(8)

\* C19: the accelerator of a Trainer that is returned is the accelerator
\* label of the runtime when there is one and Unknown when there is none.
C19_AcceleratorFromLabel ==
    Returned =>
      LastTrainer.accelerator = IF t_last.label # "none" THEN t_last.label ELSE UNKNOWN

\* C20: a Trainer that was returned has the fields it had when it was
\* returned, and ALL_TRAINERS and DEFAULT_TRAINER hold what they held when
\* the module was loaded.
C20_ReturnedValuesImmutable ==
    /\ \A k \in 1..Len(returned) : Deref(returned[k].ref) = returned[k].value
    /\ ALL_TRAINERS = InitialTrainers
    /\ DEFAULT_TRAINER = InitialDefaultTrainer

-----------------------------------------------------------------------------
(***************************************************************************)
(* Local trainer client: LocalTrainerClient.train over the runtimes of     *)
(* local_runtimes_path and the DockerJobRunner, next to the resolution of  *)
(* the trainers of these runtimes.                                         *)
(***************************************************************************)

\* A ClusterTrainingRuntime of local_runtimes_path.
RuntimeCR(name, replicated_jobs, ml_policy, label) ==
    [name |-> name, replicated_jobs |-> replicated_jobs, ml_policy |-> ml_policy,
     label |-> label]

\* The runtimes of local_runtimes_path: one with a trainer container, one
\* whose trainer container is in a job without the ancestor label, one
\* whose labelled job has only a sidecar, one whose launcher container has
\* no image, one with an invalid template.
LocalRuntimes ==
    {RuntimeCR("torch-distributed",
               NodeJob(Image("pytorch/pytorch", "2.5"), NoResources),
               MLPolicy(IntQuantity(4), 0, 2), "none"),
     RuntimeCR("no-ancestor",
               <<ReplicatedJob(TRUE, FALSE,
                   <<RuntimeContainer(TRAINER, Image("pytorch/pytorch", "2.5"),
                                      NoResources)>>)>>,
               MLPolicy(Absent, 0, 0), "none"),
     RuntimeCR("sidecar-only",
               <<ReplicatedJob(TRUE, TRUE,
                   <<RuntimeContainer("sidecar", Image("busybox", ""), NoResources)>>)>>,
               MLPolicy(IntQuantity(4), 0, 2), "none"),
     RuntimeCR("no-image",
               <<ReplicatedJob(TRUE, TRUE,
                   <<RuntimeContainer("sidecar", Image("busybox", ""), NoResources),
                     RuntimeContainer(MPI_LAUNCHER, <<>>, NoResources)>>)>>,
               MLPolicy(Absent, 0, 0), "GPU-Tesla-V100-16GB"),
     RuntimeCR("invalid-template",
               <<ReplicatedJob(FALSE, TRUE, <<>>)>>,
               MLPolicy(Absent, 0, 0), "none")}

LocalRuntimeNames == {cr.name : cr \in LocalRuntimes}

\* LocalTrainerClient.__get_runtime_cr: the runtime of that name (a name is
\* the name of one file of the directory).
get_runtime_cr(name) == CHOOSE cr \in LocalRuntimes : cr.name = name

\* LocalTrainerClient.train: RuntimeError when there is no runtime of the
\* name, no trainer container or no image (the error of an invalid template
\* is not caught); else job_runner.create_job with the image of the
\* container, num_nodes being trainer.num_nodes or 1.
LocalTrain(runtime_name, framework, trainer_num_nodes) ==
    /\ r_pc = "idle"
    /\ LET found == runtime_name \in LocalRuntimeNames
           c == IF found
                  THEN get_runtime_trainer_container(get_runtime_cr(runtime_name).replicated_jobs)
                  ELSE NoContainer
           num_nodes == IF trainer_num_nodes # 0 THEN trainer_num_nodes ELSE 1
       IN  IF ~found \/ c.raised \/ ~c.found \/ c.container.image = <<>>
             THEN /\ r_last' = [Ended("train", IF c.raised THEN "Exception" ELSE "RuntimeError")
                                  EXCEPT !.runtime_name = runtime_name]
                  /\ UNCHANGED <<docker_networks, docker_containers, used_tokens, r_pc,
                                 r_call, created, deleted>>
                  /\ UNCHANGED nonRunnerVars
             ELSE CreateJobCall(framework, num_nodes, runtime_name)

LocalInit ==
    /\ RunnerIdle
    /\ TrainerIdle
    /\ MuxIdle
    /\ StepIdle
    /\ FacadeIdle
    /\ DeviceIdle

LocalNext ==
    \/ /\ r_pc = "idle"
       /\ t_last.calls < MaxLocalResolutions
       /\ \E cr \in LocalRuntimes :
             GetRuntimeTrainer(cr.replicated_jobs, cr.ml_policy, cr.label)
    \/ /\ r_pc = "idle"
       /\ \E runtime_name \in LocalRuntimeNames \cup {"missing"}, framework \in Frameworks,
             trainer_num_nodes \in 0..MaxNodes :
             LocalTrain(runtime_name, framework, trainer_num_nodes)
    \/ RunContainer
    \/ CreateJobReturn

LocalSpec == LocalInit /\ [][LocalNext]_vars

\* No replicated job with the ancestor label has a container named as the
\* trainer or the launcher that has an image.
NoTrainerContainer(replicated_jobs) ==
    \A k \in 1..Len(replicated_jobs) :
        replicated_jobs[k].ancestor =>
          \A j \in 1..Len(replicated_jobs[k].containers) :
              replicated_jobs[k].containers[j].name \in {TRAINER, MPI_LAUNCHER}
                => replicated_jobs[k].containers[j].image = <<>>

\* The names of the runtimes that have no trainer container.
RuntimesWithoutTrainer ==
    {cr.name : cr \in {x \in LocalRuntimes : NoTrainerContainer(x.replicated_jobs)}}

\* C21: a get_runtime_trainer of a runtime without a trainer container (or
\* whose trainer container has no image) raises and yields no Trainer, not
\* the default one either, and leaves the trainers as they are; a train of
\* such a runtime raises (RuntimeError, or Exception when a template is
\* invalid), and no network and no container of such a runtime is ever
\* created.
C21_NoTrainerContainerFails ==
    /\ (t_last.calls > 0 /\ NoTrainerContainer(t_last.replicated_jobs)) =>
          /\ t_last.raised
          /\ t_last.ref = "none"
    /\ \A k \in 1..Len(returned) : returned[k].ref # "none"
    /\ Len(returned) <= t_last.calls - (IF t_last.raised THEN 1 ELSE 0)
    /\ (r_last.op = "train" /\ r_last.runtime_name \in RuntimesWithoutTrainer) =>
          r_last.outcome \in {"RuntimeError", "Exception"}
    /\ r_call.runtime_name \notin RuntimesWithoutTrainer
    /\ \A n \in docker_networks : n.labels.runtime \notin RuntimesWithoutTrainer
    /\ \A c \in docker_containers : c.labels.runtime \notin RuntimesWithoutTrainer

\* The runtime whose trainer container is in a job without the ancestor
\* label was resolved and trained last, both failed, and a job of another
\* runtime exists.
C21_Witness ==
    /\ t_last.calls > 0
    /\ t_last.replicated_jobs = get_runtime_cr("no-ancestor").replicated_jobs
    /\ t_last.raised
    /\ r_last.op = "train"
    /\ r_last.runtime_name = "no-ancestor"
    /\ r_last.outcome = "RuntimeError"
    /\ docker_networks # {}

====
